---- MODULE Spec2Model ----
(***************************************************************************)
(* Model of the TTL2 random-map-script preprocessor (preprocessor/src).    *)
(*                                                                         *)
(* A String is a sequence of one-character strings, a Vec<String> is a     *)
(* sequence of such sequences.  Indices into a String are 0-based as in    *)
(* the source; Slice(s, a, b) is &s[a..b].  An Option is a sequence of     *)
(* length at most one, except for the result of find, where None is -1.    *)
(* Every loop of a pass is a state machine: one action per branch of the   *)
(* loop body, one for what follows the loop.                               *)
(***************************************************************************)
EXTENDS Integers, Sequences, FiniteSets, TLC

VARIABLES
    fn,            \* the function being run
    status,        \* "running", "returned" or "panicked"
    lines,         \* the argument `lines` of the running pass
    pos,           \* how many elements of `lines` the for loop has consumed
    output,        \* the local `output` of the running pass
    ret,           \* the value returned: <<>> until the function returns
    repeats,       \* repeat_lines: the stack of RepeatLines frames
    object,        \* assign_objects: the pending object block
    every_player,  \* assign_objects: the every-player flag
    num_players,   \* assign_objects: the player count
    comment_depth, \* strip_comments: the depth of nested comments
    arg_s,         \* the argument `s`, `line` or `label` of a called function
    arg_depth,     \* strip_line_comments: the argument `depth`
    header,        \* collect_header_comment: the local `header`
    preamble,      \* extract_rnd: the local `preamble`
    rnd_body,      \* extract_rnd: the local `body`
    rnd_label,     \* extract_rnd: the local `label`, <<>> until it is bound
    finished_land, \* extract_rnd: the local `finished_land`
    next_id,       \* substitute_actor_area_names: the local `next_id`
    actor_areas,   \* substitute_actor_area_names: the map, as <<name, id>> pairs
    arg_n,         \* probs: the argument `n`; opponent_probability: `p1_slot`
    arg_m,         \* probs: the argument `m`; opponent_probability: `p2_slot`
    calls,         \* next_label: <<argument, result>> of the calls so far
    dest           \* main: the destination file, <<>> while it does not
                   \* exist, <<its text>> once it does

\* The locals of extract_rnd, of substitute_actor_area_names, and the
\* arguments and results of the functions called on their own together with
\* the destination file, which only main and process_script touch.
rnd_vars == <<preamble, rnd_body, rnd_label, finished_land>>
area_vars == <<next_id, actor_areas>>
call_vars == <<arg_n, arg_m, calls, dest>>

vars == <<fn, status, lines, pos, output, ret, repeats, object, every_player,
          num_players, comment_depth, arg_s, arg_depth, header, rnd_vars,
          area_vars, call_vars>>

\* The locals of extract_rnd (lib.rs 492-495) and of
\* substitute_actor_area_names (lib.rs 523-524) as they are initialized,
\* and the variables of the other functions when they are not running.
InitRndVars ==
    /\ preamble = <<>>
    /\ rnd_body = <<>>
    /\ rnd_label = <<>>
    /\ finished_land = FALSE

InitAreaVars ==
    /\ next_id = 20000
    /\ actor_areas = {}

InitCallVars ==
    /\ arg_n = 0
    /\ arg_m = 0
    /\ calls = <<>>
    /\ dest = <<>>

(***************************************************************************)
(* Bounds of the model.                                                    *)
(***************************************************************************)
MaxRepeatLines == 5
MaxObjectLines == 5
MaxCommentLines == 3
MaxStrLen == 6
MaxDepth == 3
MaxCondenseLines == 4
MaxHeaderLines == 4
MaxArgLen == 5
MaxLabelCalls == 27
MaxRndLines == 4
MaxAreaLines == 4
MaxProcessLines == 4

(***************************************************************************)
(* Strings.                                                                *)
(***************************************************************************)
NL == "\n"

LowerCase == <<"a", "b", "c", "d", "e", "f", "g", "h", "i", "j", "k", "l", "m",
               "n", "o", "p", "q", "r", "s", "t", "u", "v", "w", "x", "y", "z">>
UpperCase == <<"A", "B", "C", "D", "E", "F", "G", "H", "I", "J", "K", "L", "M",
               "N", "O", "P", "Q", "R", "S", "T", "U", "V", "W", "X", "Y", "Z">>
DecimalDigits == <<"0", "1", "2", "3", "4", "5", "6", "7", "8", "9">>

\* char::to_ascii_uppercase, which str::to_uppercase agrees with on ASCII.
to_uppercase_char(c) ==
    IF \E k \in 1..Len(LowerCase) : LowerCase[k] = c
    THEN UpperCase[CHOOSE k \in 1..Len(LowerCase) : LowerCase[k] = c]
    ELSE c

\* str::to_uppercase
to_uppercase(str) == [k \in 1..Len(str) |-> to_uppercase_char(str[k])]

\* str::eq_ignore_ascii_case
eq_ignore_ascii_case(a, b) ==
    /\ Len(a) = Len(b)
    /\ \A k \in 1..Len(a) : to_uppercase_char(a[k]) = to_uppercase_char(b[k])

\* &str[a..b], 0-based, b exclusive
Slice(str, a, b) == SubSeq(str, a + 1, b)

\* &str[a..]
SliceFrom(str, a) == SubSeq(str, a + 1, Len(str))

\* str::starts_with
starts_with(str, pat) ==
    /\ Len(str) >= Len(pat)
    /\ Slice(str, 0, Len(pat)) = pat

\* The 0-based indices at which pat occurs in str.
Occurrences(str, pat) ==
    {k \in 0..(Len(str) - Len(pat)) : Slice(str, k, k + Len(pat)) = pat}

Min(S) == CHOOSE x \in S : \A y \in S : x <= y
Max(S) == CHOOSE x \in S : \A y \in S : x >= y

\* str::find: the index of the first occurrence, -1 for None.
find(str, pat) ==
    IF Occurrences(str, pat) = {} THEN -1 ELSE Min(Occurrences(str, pat))

\* str::rfind: the index of the last occurrence, -1 for None.
rfind(str, pat) ==
    IF Occurrences(str, pat) = {} THEN -1 ELSE Max(Occurrences(str, pat))

\* [String]::join("\n")
RECURSIVE join(_)
join(ls) ==
    IF ls = <<>> THEN <<>>
    ELSE IF Len(ls) = 1 THEN ls[1]
    ELSE ls[1] \o <<NL>> \o join(Tail(ls))

\* str::repeat
RECURSIVE repeat(_, _)
repeat(str, n) == IF n = 0 THEN <<>> ELSE str \o repeat(str, n - 1)

\* str::split("\n"), collected: one more piece than there are separators,
\* so the empty string splits into one empty piece.
RECURSIVE split(_)
split(str) ==
    LET k == find(str, <<NL>>)
    IN  IF k = -1 THEN <<str>>
        ELSE <<Slice(str, 0, k)>> \o split(SliceFrom(str, k + 1))

\* The value of a decimal digit, -1 for any other character.
DigitValue(c) ==
    IF \E k \in 1..Len(DecimalDigits) : DecimalDigits[k] = c
    THEN (CHOOSE k \in 1..Len(DecimalDigits) : DecimalDigits[k] = c) - 1
    ELSE -1

\* str::parse::<usize>, -1 for Err: a non-empty run of decimal digits
\* (an optional leading `+` is not in the model's alphabet).
RECURSIVE parse_usize(_)
parse_usize(str) ==
    IF str = <<>> THEN -1
    ELSE IF \E k \in 1..Len(str) : DigitValue(str[k]) = -1 THEN -1
    ELSE IF Len(str) = 1 THEN DigitValue(str[1])
    ELSE 10 * parse_usize(SubSeq(str, 1, Len(str) - 1)) + DigitValue(str[Len(str)])

\* format!("{n}") of an unsigned integer
RECURSIVE to_string(_)
to_string(n) ==
    IF n < 10 THEN <<DecimalDigits[n + 1]>>
    ELSE to_string(n \div 10) \o <<DecimalDigits[(n % 10) + 1]>>

\* All sequences over S of length at most n.
SeqsUpTo(S, n) == UNION {[1..k -> S] : k \in 0..n}

(***************************************************************************)
(* repeat_lines                                                            *)
(***************************************************************************)
REPEAT_OPEN == <<"#", "R", "E", "P", "E", "A", "T", "(">>
END_REPEAT == <<"#", "E", "N", "D", "_", "R", "E", "P", "E", "A", "T">>

\* RepeatLines::new
RepeatLines_new(count) == [count |-> count, lines |-> <<>>]

\* RepeatLines::push_line
push_line(self, line) == [self EXCEPT !.lines = Append(@, line)]

\* get_text with the body repeated count - 1 times in all.
get_text_once_less(self) ==
    IF self.count = 0 THEN <<>>
    ELSE LET joined == join(self.lines)
             repeated == repeat(<<NL>> \o joined, self.count - 2)
         IN  IF self.count = 1 THEN <<>> ELSE joined \o repeated

\* RepeatLines::get_text
get_text(self) ==
    IF self.count = 0 THEN <<>>
    ELSE LET joined == join(self.lines)
             repeated == repeat(<<NL>> \o joined, self.count - 1)
         IN  joined \o repeated

\* parse_repeat_count: <<n>>, or <<>> where an unwrap panics.
parse_repeat_count(repeat_line) ==
    LET i == find(repeat_line, <<"(">>)
        j == rfind(repeat_line, <<")">>)
    IN  IF i = -1 \/ j = -1 \/ i + 1 > j THEN <<>>
        ELSE IF parse_usize(Slice(repeat_line, i + 1, j)) = -1 THEN <<>>
        ELSE <<parse_usize(Slice(repeat_line, i + 1, j))>>

\* The lines the model feeds to repeat_lines.
RepeatAlphabet ==
    { <<"#", "R", "E", "P", "E", "A", "T", "(", "0", ")">>,
      <<"#", "R", "E", "P", "E", "A", "T", "(", "2", ")">>,
      <<"#", "r", "e", "p", "e", "a", "t", "(", "3", ")">>,
      END_REPEAT,
      <<"f", "o", "o">>,
      <<"b", "a", "r">> }

IsRepeatOpen(line) == starts_with(to_uppercase(line), REPEAT_OPEN)
IsRepeatEnd(line) == eq_ignore_ascii_case(line, END_REPEAT)

InitRepeat ==
    /\ fn = "repeat_lines"
    /\ status = "running"
    /\ lines \in SeqsUpTo(RepeatAlphabet, MaxRepeatLines)
                    \cup { << <<"f", "o", "o">>,
                              <<"#", "R", "E", "P", "E", "A", "T", "(", "2", ")">>,
                              <<"#", "r", "e", "p", "e", "a", "t", "(", "3", ")">>,
                              <<"f", "o", "o">>,
                              <<"b", "a", "r">>,
                              END_REPEAT,
                              END_REPEAT,
                              <<"b", "a", "r">> >> }
    /\ pos = 0
    /\ output = <<>>
    /\ ret = <<>>
    /\ repeats = <<>>
    /\ object = <<>>
    /\ every_player = FALSE
    /\ num_players = 2
    /\ comment_depth = 0
    /\ arg_s = <<>>
    /\ arg_depth = 0
    /\ header = <<>>
    /\ InitRndVars
    /\ InitAreaVars
    /\ InitCallVars

RepeatRunning == fn = "repeat_lines" /\ status = "running"

\* The loop has an element left; `line` is lines[pos + 1].
RepeatHasLine == RepeatRunning /\ pos < Len(lines)

\* lib.rs 306-307: a repeat block opens.
RepeatOpen ==
    /\ RepeatHasLine
    /\ IsRepeatOpen(lines[pos + 1])
    /\ LET count == parse_repeat_count(lines[pos + 1])
       IN  IF count = <<>>
           THEN /\ status' = "panicked"
                /\ UNCHANGED <<repeats, pos>>
           ELSE /\ repeats' = Append(repeats, RepeatLines_new(count[1]))
                /\ pos' = pos + 1
                /\ UNCHANGED status
    /\ UNCHANGED <<fn, lines, output, ret, object, every_player, num_players,
                   comment_depth, arg_s, arg_depth,
                   header, rnd_vars, area_vars, call_vars>>

\* The pieces of the popped frame's text go to the output even when a frame
\* is left.
RepeatEmitToOutput(last, rest) ==
    /\ repeats' = rest
    /\ output' = output \o split(get_text(last))

\* lib.rs 310-315: the pieces of the popped frame's text go to the frame
\* below it, or to the output when no frame is left.
RepeatEmit(last, rest) ==
    LET texts == split(get_text(last))
    IN  IF rest # <<>>
        THEN /\ repeats' = [rest EXCEPT ![Len(rest)].lines = @ \o texts]
             /\ UNCHANGED output
        ELSE /\ repeats' = rest
             /\ output' = output \o texts

\* lib.rs 308-315: a repeat block ends.
RepeatEnd ==
    /\ RepeatHasLine
    /\ ~IsRepeatOpen(lines[pos + 1])
    /\ IsRepeatEnd(lines[pos + 1])
    /\ IF repeats = <<>>
       THEN /\ status' = "panicked"
            /\ UNCHANGED <<repeats, output, pos>>
       ELSE /\ RepeatEmit(repeats[Len(repeats)], SubSeq(repeats, 1, Len(repeats) - 1))
            /\ pos' = pos + 1
            /\ UNCHANGED status
    /\ UNCHANGED <<fn, lines, ret, object, every_player, num_players,
                   comment_depth, arg_s, arg_depth,
                   header, rnd_vars, area_vars, call_vars>>

\* lib.rs 316-321: any other line.
RepeatLine ==
    /\ RepeatHasLine
    /\ ~IsRepeatOpen(lines[pos + 1])
    /\ ~IsRepeatEnd(lines[pos + 1])
    /\ IF repeats # <<>>
       THEN /\ repeats' = [repeats EXCEPT ![Len(repeats)] = push_line(@, lines[pos + 1])]
            /\ UNCHANGED output
       ELSE /\ output' = Append(output, lines[pos + 1])
            /\ UNCHANGED repeats
    /\ pos' = pos + 1
    /\ UNCHANGED <<fn, status, lines, ret, object, every_player, num_players,
                   comment_depth, arg_s, arg_depth,
                   header, rnd_vars, area_vars, call_vars>>

\* RepeatFinish without the assertion that the stack is empty.
RepeatFinishUnchecked ==
    /\ RepeatRunning
    /\ pos = Len(lines)
    /\ status' = "returned"
    /\ ret' = <<output>>
    /\ UNCHANGED <<fn, lines, pos, output, repeats, object, every_player,
                   num_players, comment_depth, arg_s, arg_depth,
                   header, rnd_vars, area_vars, call_vars>>

\* lib.rs 323-327: the loop is over.
RepeatFinish ==
    /\ RepeatRunning
    /\ pos = Len(lines)
    /\ IF repeats = <<>>
       THEN status' = "returned" /\ ret' = <<output>>
       ELSE status' = "panicked" /\ UNCHANGED ret
    /\ UNCHANGED <<fn, lines, pos, output, repeats, object, every_player,
                   num_players, comment_depth, arg_s, arg_depth,
                   header, rnd_vars, area_vars, call_vars>>

NextRepeat == RepeatOpen \/ RepeatEnd \/ RepeatLine \/ RepeatFinish

SpecRepeat == InitRepeat /\ [][NextRepeat]_vars

(***************************************************************************)
(* assign_objects                                                          *)
(***************************************************************************)
CREATE_OBJECT == <<"c", "r", "e", "a", "t", "e", "_", "o", "b", "j", "e", "c", "t">>
CLOSE_BRACE == <<"}">>
SET_PLACE_FOR_EVERY_PLAYER ==
    <<"#", "S", "E", "T", "_", "P", "L", "A", "C", "E", "_", "F", "O", "R", "_",
      "E", "V", "E", "R", "Y", "_", "P", "L", "A", "Y", "E", "R">>
PLACE8 == <<"#", "P", "L", "A", "C", "E", "8">>
PLACE_ON_SPECIFIC_LAND_ID ==
    <<"p", "l", "a", "c", "e", "_", "o", "n", "_", "s", "p", "e", "c", "i", "f",
      "i", "c", "_", "l", "a", "n", "d", "_", "i", "d", " ">>

\* The lines the model feeds to assign_objects.
ObjectAlphabet ==
    { CREATE_OBJECT \o <<" ", "A">>,
      CLOSE_BRACE,
      SET_PLACE_FOR_EVERY_PLAYER,
      <<"#", "s", "e", "t", "_", "p", "l", "a", "c", "e", "_", "f", "o", "r", "_",
        "e", "v", "e", "r", "y", "_", "p", "l", "a", "y", "e", "r">>,
      PLACE8,
      <<"f", "o", "o">> }

InitObject ==
    /\ fn = "assign_objects"
    /\ status = "running"
    /\ lines \in SeqsUpTo(ObjectAlphabet, MaxObjectLines)
    /\ pos = 0
    /\ output = <<>>
    /\ ret = <<>>
    /\ repeats = <<>>
    /\ object = <<>>
    /\ every_player = FALSE
    /\ num_players = 2
    /\ comment_depth = 0
    /\ arg_s = <<>>
    /\ arg_depth = 0
    /\ header = <<>>
    /\ InitRndVars
    /\ InitAreaVars
    /\ InitCallVars

ObjectRunning == fn = "assign_objects" /\ status = "running"

\* The loop has an element left; `line` is lines[pos + 1].
ObjectHasLine == ObjectRunning /\ pos < Len(lines)

\* lib.rs 430-434: the assertion on a line met while `object` is empty.
ObjectMacroOutside ==
    /\ ObjectHasLine
    /\ object = <<>>
    /\ eq_ignore_ascii_case(lines[pos + 1], SET_PLACE_FOR_EVERY_PLAYER)
    /\ status' = "panicked"
    /\ UNCHANGED <<fn, lines, pos, output, ret, repeats, object, every_player,
                   num_players, comment_depth, arg_s, arg_depth,
                   header, rnd_vars, area_vars, call_vars>>

\* lib.rs 435-436, 440: a block opens.
ObjectOpen ==
    /\ ObjectHasLine
    /\ object = <<>>
    /\ ~eq_ignore_ascii_case(lines[pos + 1], SET_PLACE_FOR_EVERY_PLAYER)
    /\ starts_with(lines[pos + 1], CREATE_OBJECT)
    /\ object' = Append(object, lines[pos + 1])
    /\ pos' = pos + 1
    /\ UNCHANGED <<fn, status, lines, output, ret, repeats, every_player,
                   num_players, comment_depth, arg_s, arg_depth,
                   header, rnd_vars, area_vars, call_vars>>

\* lib.rs 437-440: a line outside of any block is copied.
ObjectCopy ==
    /\ ObjectHasLine
    /\ object = <<>>
    /\ ~eq_ignore_ascii_case(lines[pos + 1], SET_PLACE_FOR_EVERY_PLAYER)
    /\ ~starts_with(lines[pos + 1], CREATE_OBJECT)
    /\ output' = Append(output, lines[pos + 1])
    /\ pos' = pos + 1
    /\ UNCHANGED <<fn, status, lines, ret, repeats, object, every_player,
                   num_players, comment_depth, arg_s, arg_depth,
                   header, rnd_vars, area_vars, call_vars>>

\* lib.rs 446-452: the object once for each land_id in from..=num_players.
RECURSIVE ObjectForEveryPlayer(_, _, _)
ObjectForEveryPlayer(obj, land_id, last) ==
    IF land_id > last THEN <<>>
    ELSE obj \o <<PLACE_ON_SPECIFIC_LAND_ID \o to_string(land_id), CLOSE_BRACE>>
             \o ObjectForEveryPlayer(obj, land_id + 1, last)

\* ObjectClose with the land ids counted from 0.
ObjectCloseFromZero ==
    /\ ObjectHasLine
    /\ object # <<>>
    /\ lines[pos + 1] = CLOSE_BRACE
    /\ IF every_player
       THEN output' = output \o ObjectForEveryPlayer(object, 0, num_players - 1)
       ELSE output' = output \o object \o <<CLOSE_BRACE>>
    /\ object' = <<>>
    /\ every_player' = FALSE
    /\ pos' = pos + 1
    /\ UNCHANGED <<fn, status, lines, ret, repeats, num_players, comment_depth,
                   arg_s, arg_depth,
                   header, rnd_vars, area_vars, call_vars>>

\* ObjectClose that leaves the every-player flag as it was.
ObjectCloseKeepingFlag ==
    /\ ObjectHasLine
    /\ object # <<>>
    /\ lines[pos + 1] = CLOSE_BRACE
    /\ IF every_player
       THEN output' = output \o ObjectForEveryPlayer(object, 1, num_players)
       ELSE output' = output \o object \o <<CLOSE_BRACE>>
    /\ object' = <<>>
    /\ pos' = pos + 1
    /\ UNCHANGED <<fn, status, lines, ret, repeats, every_player, num_players,
                   comment_depth, arg_s, arg_depth,
                   header, rnd_vars, area_vars, call_vars>>

\* lib.rs 443-462: the block closes.
ObjectClose ==
    /\ ObjectHasLine
    /\ object # <<>>
    /\ lines[pos + 1] = CLOSE_BRACE
    /\ IF every_player
       THEN output' = output \o ObjectForEveryPlayer(object, 1, num_players)
       ELSE output' = output \o object \o <<CLOSE_BRACE>>
    /\ object' = <<>>
    /\ every_player' = FALSE
    /\ pos' = pos + 1
    /\ UNCHANGED <<fn, status, lines, ret, repeats, num_players, comment_depth,
                   arg_s, arg_depth,
                   header, rnd_vars, area_vars, call_vars>>

\* lib.rs 463-466
ObjectSetEveryPlayer ==
    /\ ObjectHasLine
    /\ object # <<>>
    /\ lines[pos + 1] = SET_PLACE_FOR_EVERY_PLAYER
    /\ every_player' = TRUE
    /\ num_players' = 2
    /\ pos' = pos + 1
    /\ UNCHANGED <<fn, status, lines, output, ret, repeats, object,
                   comment_depth, arg_s, arg_depth,
                   header, rnd_vars, area_vars, call_vars>>

\* lib.rs 467-470
ObjectPlace8 ==
    /\ ObjectHasLine
    /\ object # <<>>
    /\ lines[pos + 1] = PLACE8
    /\ every_player' = TRUE
    /\ num_players' = 8
    /\ pos' = pos + 1
    /\ UNCHANGED <<fn, status, lines, output, ret, repeats, object,
                   comment_depth, arg_s, arg_depth,
                   header, rnd_vars, area_vars, call_vars>>

\* lib.rs 471: any other line of the block.
ObjectCollect ==
    /\ ObjectHasLine
    /\ object # <<>>
    /\ lines[pos + 1] \notin {CLOSE_BRACE, SET_PLACE_FOR_EVERY_PLAYER, PLACE8}
    /\ object' = Append(object, lines[pos + 1])
    /\ pos' = pos + 1
    /\ UNCHANGED <<fn, status, lines, output, ret, repeats, every_player,
                   num_players, comment_depth, arg_s, arg_depth,
                   header, rnd_vars, area_vars, call_vars>>

\* ObjectFinish without the assertion that the block is closed.
ObjectFinishUnchecked ==
    /\ ObjectRunning
    /\ pos = Len(lines)
    /\ status' = "returned"
    /\ ret' = <<output>>
    /\ UNCHANGED <<fn, lines, pos, output, repeats, object, every_player,
                   num_players, comment_depth, arg_s, arg_depth,
                   header, rnd_vars, area_vars, call_vars>>

\* lib.rs 474-475: the loop is over.
ObjectFinish ==
    /\ ObjectRunning
    /\ pos = Len(lines)
    /\ IF object = <<>>
       THEN status' = "returned" /\ ret' = <<output>>
       ELSE status' = "panicked" /\ UNCHANGED ret
    /\ UNCHANGED <<fn, lines, pos, output, repeats, object, every_player,
                   num_players, comment_depth, arg_s, arg_depth,
                   header, rnd_vars, area_vars, call_vars>>

NextObject ==
    \/ ObjectMacroOutside
    \/ ObjectOpen
    \/ ObjectCopy
    \/ ObjectClose
    \/ ObjectSetEveryPlayer
    \/ ObjectPlace8
    \/ ObjectCollect
    \/ ObjectFinish

SpecObject == InitObject /\ [][NextObject]_vars

(***************************************************************************)
(* strip_line_comments and strip_comments                                  *)
(***************************************************************************)
OPEN_COMMENT == <<"/", "*">>
CLOSE_COMMENT == <<"*", "/">>

RECURSIVE strip_start_comment(_, _, _)
RECURSIVE strip_end_comment(_, _, _)
RECURSIVE strip_line_comments(_, _)

\* strip_start_comment that keeps the text before the delimiter at any
\* depth.
strip_start_comment_keeping(s, depth, i) ==
    LET tail == SliceFrom(s, i + 2)
        rec == strip_line_comments(tail, depth + 1)
    IN  <<Slice(s, 0, i) \o rec[1], rec[2]>>

\* strip_start_comment: <<t, d>>
strip_start_comment(s, depth, i) ==
    LET front == IF depth > 0 THEN <<>> ELSE Slice(s, 0, i)
        tail == SliceFrom(s, i + 2)
        rec == strip_line_comments(tail, depth + 1)
    IN  <<front \o rec[1], rec[2]>>

\* strip_end_comment that drops the unbalanced delimiter.
strip_end_comment_dropping(s, depth, j) ==
    LET tail == SliceFrom(s, j + 2)
    IN  IF depth > 0
        THEN strip_line_comments(tail, depth - 1)
        ELSE LET front == Slice(s, 0, j)
                 rec == strip_line_comments(tail, 0)
             IN  <<front \o rec[1], rec[2]>>

\* strip_end_comment: <<t, d>>
strip_end_comment(s, depth, j) ==
    LET tail == SliceFrom(s, j + 2)
    IN  IF depth > 0
        THEN strip_line_comments(tail, depth - 1)
        ELSE LET front == Slice(s, 0, j + 2)
                 rec == strip_line_comments(tail, 0)
             IN  <<front \o rec[1], rec[2]>>

\* strip_line_comments in which the later of the two delimiters wins.
strip_line_comments_later_wins(s, depth) ==
    LET i == find(s, OPEN_COMMENT)
        j == find(s, CLOSE_COMMENT)
    IN  CASE i # -1 /\ j # -1 ->
                IF i > j THEN strip_start_comment(s, depth, i)
                         ELSE strip_end_comment(s, depth, j)
          [] i # -1 /\ j = -1 -> strip_start_comment(s, depth, i)
          [] i = -1 /\ j # -1 -> strip_end_comment(s, depth, j)
          [] i = -1 /\ j = -1 -> <<IF depth > 0 THEN <<>> ELSE s, depth>>

\* strip_line_comments that keeps a line without delimiters at any depth.
strip_line_comments_keeping(s, depth) ==
    LET i == find(s, OPEN_COMMENT)
        j == find(s, CLOSE_COMMENT)
    IN  CASE i # -1 /\ j # -1 ->
                IF i < j THEN strip_start_comment(s, depth, i)
                         ELSE strip_end_comment(s, depth, j)
          [] i # -1 /\ j = -1 -> strip_start_comment(s, depth, i)
          [] i = -1 /\ j # -1 -> strip_end_comment(s, depth, j)
          [] i = -1 /\ j = -1 -> <<s, depth>>

\* strip_line_comments: <<t, d>>
strip_line_comments(s, depth) ==
    LET i == find(s, OPEN_COMMENT)
        j == find(s, CLOSE_COMMENT)
    IN  CASE i # -1 /\ j # -1 ->
                IF i < j THEN strip_start_comment(s, depth, i)
                         ELSE strip_end_comment(s, depth, j)
          [] i # -1 /\ j = -1 -> strip_start_comment(s, depth, i)
          [] i = -1 /\ j # -1 -> strip_end_comment(s, depth, j)
          [] i = -1 /\ j = -1 -> <<IF depth > 0 THEN <<>> ELSE s, depth>>

\* The characters of the lines the model feeds to the comment stripper.
CommentChars == {"a", "/", "*"}

\* The lines of the tests of lib.rs.
TEST_NO_COMMENTS ==
    <<"H", "e", "l", "l", "o", ",", " ", "W", "o", "r", "l", "d", "!">>
TEST_COMMENT_START == <<"a", " ", "/", "*", " ", "b">>
TEST_ENTIRE_LINE ==
    <<"/", "*", " ", "t", "h", "i", "s", " ", "i", "s", " ", "a", " ",
    "c", "o", "m", "m", "e", "n", "t", " ", "*", "/">>

\* The arguments `s` the model calls strip_line_comments with.
StripLineInputs ==
    SeqsUpTo(CommentChars, MaxStrLen)
        \cup {TEST_NO_COMMENTS, TEST_COMMENT_START, TEST_ENTIRE_LINE}

InitStripLine ==
    /\ fn = "strip_line_comments"
    /\ status = "running"
    /\ arg_s \in StripLineInputs
    /\ arg_depth \in 0..MaxDepth
    /\ ret = <<>>
    /\ lines = <<>>
    /\ pos = 0
    /\ output = <<>>
    /\ repeats = <<>>
    /\ object = <<>>
    /\ every_player = FALSE
    /\ num_players = 2
    /\ comment_depth = 0
    /\ header = <<>>
    /\ InitRndVars
    /\ InitAreaVars
    /\ InitCallVars

\* A call of strip_line_comments(arg_s, arg_depth).
StripLineCall ==
    /\ fn = "strip_line_comments"
    /\ status = "running"
    /\ ret' = <<strip_line_comments(arg_s, arg_depth)>>
    /\ status' = "returned"
    /\ UNCHANGED <<fn, lines, pos, output, repeats, object, every_player,
                   num_players, comment_depth, arg_s, arg_depth,
                   header, rnd_vars, area_vars, call_vars>>

NextStripLine == StripLineCall

SpecStripLine == InitStripLine /\ [][NextStripLine]_vars

\* The lines the model feeds to strip_comments.
CommentLines ==
    { <<>>,
      <<"a">>,
      <<"/", "*">>,
      <<"*", "/">>,
      <<"a", "/", "*", "a">>,
      <<"a", "*", "/", "a">>,
      <<"/", "*", "a", "*", "/", "a">>,
      <<"/", "*", "/", "*">> }

InitComments ==
    /\ fn = "strip_comments"
    /\ status = "running"
    /\ lines \in SeqsUpTo(CommentLines, MaxCommentLines)
    /\ pos = 0
    /\ output = <<>>
    /\ ret = <<>>
    /\ comment_depth = 0
    /\ repeats = <<>>
    /\ object = <<>>
    /\ every_player = FALSE
    /\ num_players = 2
    /\ arg_s = <<>>
    /\ arg_depth = 0
    /\ header = <<>>
    /\ InitRndVars
    /\ InitAreaVars
    /\ InitCallVars

CommentsRunning == fn = "strip_comments" /\ status = "running"

\* StripCommentsLine that starts every line at depth 0.
StripCommentsLineForgetting ==
    /\ CommentsRunning
    /\ pos < Len(lines)
    /\ LET r == strip_line_comments(lines[pos + 1], 0)
       IN  /\ output' = Append(output, r[1])
           /\ comment_depth' = r[2]
    /\ pos' = pos + 1
    /\ UNCHANGED <<fn, status, lines, ret, repeats, object, every_player,
                   num_players, arg_s, arg_depth,
                   header, rnd_vars, area_vars, call_vars>>

\* lib.rs 141-145: one line of the loop.
StripCommentsLine ==
    /\ CommentsRunning
    /\ pos < Len(lines)
    /\ LET r == strip_line_comments(lines[pos + 1], comment_depth)
       IN  /\ output' = Append(output, r[1])
           /\ comment_depth' = r[2]
    /\ pos' = pos + 1
    /\ UNCHANGED <<fn, status, lines, ret, repeats, object, every_player,
                   num_players, arg_s, arg_depth,
                   header, rnd_vars, area_vars, call_vars>>

\* lib.rs 146: the loop is over.
StripCommentsFinish ==
    /\ CommentsRunning
    /\ pos = Len(lines)
    /\ status' = "returned"
    /\ ret' = <<output>>
    /\ UNCHANGED <<fn, lines, pos, output, repeats, object, every_player,
                   num_players, comment_depth, arg_s, arg_depth,
                   header, rnd_vars, area_vars, call_vars>>

NextComments == StripCommentsLine \/ StripCommentsFinish

SpecComments == InitComments /\ [][NextComments]_vars

(***************************************************************************)
(* condense_line_whitespace and condense_whitespace                        *)
(***************************************************************************)
\* The values every Init gives to the locals of the passes that are not
\* running.
InitIdle ==
    /\ pos = 0
    /\ output = <<>>
    /\ ret = <<>>
    /\ repeats = <<>>
    /\ object = <<>>
    /\ every_player = FALSE
    /\ num_players = 2
    /\ comment_depth = 0
    /\ arg_depth = 0

\* char::is_whitespace, on the characters of the model.
is_whitespace(c) == c \in {" ", "\t", "\n", "\r"}

\* str::trim
RECURSIVE trim(_)
trim(str) ==
    IF str = <<>> THEN <<>>
    ELSE IF is_whitespace(str[1]) THEN trim(Tail(str))
    ELSE IF is_whitespace(str[Len(str)]) THEN trim(SubSeq(str, 1, Len(str) - 1))
    ELSE str

\* str::split_whitespace, collected: the maximal runs of characters that
\* are not whitespace.
RECURSIVE split_whitespace(_)
split_whitespace(str) ==
    IF str = <<>> THEN <<>>
    ELSE IF is_whitespace(str[1]) THEN split_whitespace(Tail(str))
    ELSE LET stops == {k \in 1..Len(str) : is_whitespace(str[k])}
             n == IF stops = {} THEN Len(str) ELSE Min(stops) - 1
         IN  <<SubSeq(str, 1, n)>> \o split_whitespace(SubSeq(str, n + 1, Len(str)))

\* The concatenation of the strings of a sequence (Iterator::collect).
RECURSIVE collect_string(_)
collect_string(strs) ==
    IF strs = <<>> THEN <<>> ELSE strs[1] \o collect_string(Tail(strs))

\* condense_line_whitespace that trims only.
condense_line_whitespace_trimming(s) == trim(s)

\* condense_line_whitespace
condense_line_whitespace(s) ==
    LET words == split_whitespace(trim(s))
    IN  collect_string([k \in 1..Len(words) |->
            (IF k - 1 > 0 THEN <<" ">> ELSE <<>>) \o words[k]])

\* condense_whitespace
condense_whitespace(ls) ==
    SelectSeq([k \in 1..Len(ls) |-> condense_line_whitespace(ls[k])],
              LAMBDA line : line # <<>>)

\* The line of tests::test_condense_only_whitespace.
TEST_ONLY_WHITESPACE == <<" ", " ", " ">>

InitCondense ==
    /\ status = "running"
    /\ \/ /\ fn = "condense_line_whitespace"
          /\ arg_s \in SeqsUpTo({"a", "b", " ", "\t"}, MaxStrLen)
          /\ lines = <<>>
       \/ /\ fn = "condense_whitespace"
          /\ lines \in SeqsUpTo({ <<>>,
                                  <<" ">>,
                                  <<"\t", " ">>,
                                  <<"a">>,
                                  <<" ", "a", " ", "\t", "b", " ">>,
                                  <<"b", "\t", "a">> }, MaxCondenseLines)
          /\ arg_s = <<>>
    /\ InitIdle
    /\ header = <<>>
    /\ InitRndVars
    /\ InitAreaVars
    /\ InitCallVars

\* A call of condense_line_whitespace(arg_s).
CondenseLineCall ==
    /\ fn = "condense_line_whitespace"
    /\ status = "running"
    /\ ret' = <<condense_line_whitespace(arg_s)>>
    /\ status' = "returned"
    /\ UNCHANGED <<fn, lines, pos, output, repeats, object, every_player,
                   num_players, comment_depth, arg_s, arg_depth,
                   header, rnd_vars, area_vars, call_vars>>

\* A call of condense_whitespace(lines).
CondenseCall ==
    /\ fn = "condense_whitespace"
    /\ status = "running"
    /\ ret' = <<condense_whitespace(lines)>>
    /\ status' = "returned"
    /\ UNCHANGED <<fn, lines, pos, output, repeats, object, every_player,
                   num_players, comment_depth, arg_s, arg_depth,
                   header, rnd_vars, area_vars, call_vars>>

NextCondense == CondenseLineCall \/ CondenseCall

SpecCondense == InitCondense /\ [][NextCondense]_vars

(***************************************************************************)
(* collect_header_comment                                                  *)
(***************************************************************************)
HEADER_START == <<"#", "H", "E", "A", "D", "E", "R", "_", "S", "T", "A", "R", "T">>
HEADER_END == <<"#", "H", "E", "A", "D", "E", "R", "_", "E", "N", "D">>

\* line.trim().to_uppercase() == "#HEADER_START" and == "#HEADER_END"
IsHeaderStart(line) == to_uppercase(trim(line)) = HEADER_START
IsHeaderEnd(line) == to_uppercase(trim(line)) = HEADER_END

InitHeader ==
    /\ fn = "collect_header_comment"
    /\ status = "running"
    /\ lines \in SeqsUpTo(
           { HEADER_START,
             <<" ", "#", "h", "e", "a", "d", "e", "r", "_", "s", "t", "a", "r", "t">>,
             HEADER_END,
             <<"#", "H", "e", "a", "d", "e", "r", "_", "e", "n", "d", " ">>,
             <<"f", "o", "o">>,
             <<"b", "a", "r">> }, MaxHeaderLines)
    /\ arg_s = <<>>
    /\ InitIdle
    /\ header = <<>>
    /\ InitRndVars
    /\ InitAreaVars
    /\ InitCallVars

\* The while loop runs; `i` is pos.
HeaderLooping == fn = "collect_header_comment" /\ status = "running" /\ pos >= 1

\* lib.rs 50-52: no header opens the script.
HeaderAbsent ==
    /\ fn = "collect_header_comment"
    /\ status = "running"
    /\ pos = 0
    /\ IF lines = <<>> THEN TRUE ELSE ~IsHeaderStart(lines[1])
    /\ status' = "returned"
    /\ ret' = << << <<>>, lines >> >>
    /\ UNCHANGED <<fn, lines, pos, output, repeats, object, every_player,
                   num_players, comment_depth, arg_s, arg_depth,
                   header, rnd_vars, area_vars, call_vars>>

\* lib.rs 50, 53-55: the first line opens a header.
HeaderStart ==
    /\ fn = "collect_header_comment"
    /\ status = "running"
    /\ pos = 0
    /\ lines # <<>>
    /\ IsHeaderStart(lines[1])
    /\ pos' = 1
    /\ header' = <<>>
    /\ UNCHANGED <<fn, status, lines, output, ret, repeats, object,
                   every_player, num_players, comment_depth, arg_s, arg_depth,
                   rnd_vars, area_vars, call_vars>>

\* HeaderEnd that leaves the end sentinel in the remaining lines.
HeaderEndKeepingSentinel ==
    /\ HeaderLooping
    /\ pos # Len(lines)
    /\ IsHeaderEnd(lines[pos + 1])
    /\ status' = "returned"
    /\ ret' = << <<header, SubSeq(lines, pos + 1, Len(lines))>> >>
    /\ UNCHANGED <<fn, lines, pos, output, repeats, object, every_player,
                   num_players, comment_depth, arg_s, arg_depth,
                   header, rnd_vars, area_vars, call_vars>>

\* lib.rs 56-64: the header ends; `end` is lines[i + 1..n].
HeaderEnd ==
    /\ HeaderLooping
    /\ pos # Len(lines)
    /\ IsHeaderEnd(lines[pos + 1])
    /\ status' = "returned"
    /\ ret' = << <<header, SubSeq(lines, pos + 2, Len(lines))>> >>
    /\ UNCHANGED <<fn, lines, pos, output, repeats, object, every_player,
                   num_players, comment_depth, arg_s, arg_depth,
                   header, rnd_vars, area_vars, call_vars>>

\* lib.rs 56-58, 65-66: a line of the header.
HeaderLine ==
    /\ HeaderLooping
    /\ pos # Len(lines)
    /\ ~IsHeaderEnd(lines[pos + 1])
    /\ header' = Append(header, lines[pos + 1])
    /\ pos' = pos + 1
    /\ UNCHANGED <<fn, status, lines, output, ret, repeats, object,
                   every_player, num_players, comment_depth, arg_s, arg_depth,
                   rnd_vars, area_vars, call_vars>>

\* lib.rs 68: the input ends inside the header.
HeaderNeverEnds ==
    /\ HeaderLooping
    /\ pos = Len(lines)
    /\ status' = "panicked"
    /\ UNCHANGED <<fn, lines, pos, output, ret, repeats, object, every_player,
                   num_players, comment_depth, arg_s, arg_depth,
                   header, rnd_vars, area_vars, call_vars>>

NextHeader ==
    \/ HeaderAbsent
    \/ HeaderStart
    \/ HeaderEnd
    \/ HeaderLine
    \/ HeaderNeverEnds

SpecHeader == InitHeader /\ [][NextHeader]_vars

(***************************************************************************)
(* expand_line                                                             *)
(***************************************************************************)
\* The names of the match on &upper[..i] (lib.rs 189-199).
ParenMacros ==
    { <<"#", "C", "I", "R", "C", "L", "E", "_", "L", "A", "B", "E", "L",
        "S">>,
      <<"#", "C", "I", "R", "C", "L", "E", "_", "P", "O", "S", "I", "T",
        "I", "O", "N", "_", "P", "1">>,
      <<"#", "C", "I", "R", "C", "L", "E", "_", "P", "O", "S", "I", "T",
        "I", "O", "N", "_", "P", "2">>,
      <<"#", "S", "Q", "U", "A", "R", "E", "_", "L", "A", "B", "E", "L",
        "S">>,
      <<"#", "S", "Q", "U", "A", "R", "E", "_", "P", "O", "S", "I", "T",
        "I", "O", "N", "_", "P", "1">>,
      <<"#", "S", "Q", "U", "A", "R", "E", "_", "P", "O", "S", "I", "T",
        "I", "O", "N", "_", "P", "2">>,
      <<"#", "M", "I", "G", "R", "A", "_", "L", "A", "B", "E", "L", "S">>,
      <<"#", "M", "I", "G", "R", "A", "_", "P", "O", "S", "I", "T", "I",
        "O", "N", "_", "P", "1">>,
      <<"#", "M", "I", "G", "R", "A", "_", "P", "O", "S", "I", "T", "I",
        "O", "N", "_", "P", "2">> }

\* The names of the match on upper (lib.rs 202-237).
PlainMacros ==
    { <<"#", "P", "O", "S", "I", "T", "I", "O", "N", "_", "L", "A", "B",
        "E", "L", "S">>,
      <<"#", "P", "O", "S", "I", "T", "I", "O", "N", "_", "P", "1">>,
      <<"#", "P", "O", "S", "I", "T", "I", "O", "N", "_", "P", "2">>,
      <<"#", "S", "Q", "U", "A", "R", "E", "_", "A", "V", "O", "I", "D",
        "_", "C", "L", "I", "F", "F", "S">>,
      <<"#", "R", "O", "C", "K", "G", "E", "N">>,
      <<"#", "M", "K", "C", "O", "N", "S", "T", "S">>,
      <<"#", "S", "E", "T", "P", "H", "A", "T", "T", "R">>,
      <<"#", "S", "E", "T", "P", "H", "A", "T", "T", "R", "4", "S", "E",
        "A", "S", "O", "N", "S">>,
      <<"#", "T", "C", "C", "E", "N", "T", "E", "R">>,
      <<"#", "T", "C", "B", "O", "X", "E", "S">>,
      <<"#", "T", "C", "M", "U", "L", "T", "I", "B", "O", "X", "E", "S">>,
      <<"#", "V", "I", "S", "I", "O", "N">>,
      <<"#", "T", "C", "9", "V", "I", "L", "S">>,
      <<"#", "T", "C", "9", "V", "I", "L", "S", "Z", "E", "W", "A", "L",
        "L">>,
      <<"#", "T", "C", "M", "U", "L", "T", "I", "9", "V", "I", "L", "S">>,
      <<"#", "H", "O", "U", "S", "E", "G", "A", "P", "3">>,
      <<"#", "M", "U", "L", "T", "I", "H", "O", "U", "S", "E", "S">>,
      <<"#", "H", "U", "T", "G", "A", "P", "3">>,
      <<"#", "S", "T", "R", "A", "G", "G", "L", "E", "R", "9", "V", "I",
        "L", "S">>,
      <<"#", "S", "T", "R", "A", "G", "G", "L", "E", "R", "9", "V", "I",
        "L", "S", "S", "O", "C", "O", "T", "R", "A">>,
      <<"#", "M", "U", "L", "T", "I", "S", "T", "R", "A", "G", "G", "L",
        "E", "R", "9", "V", "I", "L", "S">>,
      <<"#", "O", "B", "J", "E", "C", "T", "S", "9", "V", "I", "L", "S">>,
      <<"#", "O", "B", "J", "E", "C", "T", "S", "9", "V", "I", "L", "S",
        "Z", "E", "W", "A", "L", "L">>,
      <<"#", "A", "R", "E", "N", "A", "C", "I", "R", "C", "L", "E", "S",
        "2", "V", "2">>,
      <<"#", "D", "I", "R", "L", "A", "B", "E", "L", "S">>,
      <<"#", "S", "N", "A", "K", "E", "L", "A", "N", "D", "S">>,
      <<"#", "S", "N", "A", "K", "E", "B", "O", "R", "D", "E", "R", "S">>,
      <<"#", "A", "R", "E", "N", "A", "L", "A", "N", "D", "S">>,
      <<"#", "F", "O", "U", "R", "S", "E", "A", "S", "O", "N", "S", "L",
        "A", "N", "D", "S">>,
      <<"#", "F", "O", "U", "R", "S", "E", "A", "S", "O", "N", "S", "L",
        "A", "K", "E", "S">>,
      <<"#", "A", "R", "E", "N", "A", "_", "C", "I", "R", "C", "L", "E",
        "_", "G", "A", "P", "S">>,
      <<"#", "A", "R", "E", "N", "A", "_", "P", "L", "A", "Y", "E", "R",
        "S", "_", "G", "A", "P", "S">>,
      <<"#", "B", "F", "L", "A", "N", "D", "S">> }

\* s is a non-empty run of decimal digits.
IsDigits(s) == s # <<>> /\ \A k \in 1..Len(s) : DigitValue(s[k]) # -1

\* s without one leading sign.
Unsigned(s) == IF s # <<>> /\ s[1] \in {"+", "-"} THEN Tail(s) ELSE s

\* str::parse::<f64> is Ok: an optional sign, then inf, infinity or nan in
\* any case, or digits with at most one point and at least one digit,
\* followed or not by an exponent of at least one digit.
parse_f64_is_ok(s) ==
    LET u == Unsigned(s)
        marks == {k \in 1..Len(u) : u[k] \in {"e", "E"}}
        e == IF marks = {} THEN Len(u) + 1 ELSE Min(marks)
        mantissa == SubSeq(u, 1, e - 1)
        exponent == SubSeq(u, e + 1, Len(u))
        points == {k \in 1..Len(mantissa) : mantissa[k] = "."}
    IN  \/ to_uppercase(u) \in { <<"I", "N", "F">>, <<"N", "A", "N">>,
                                 <<"I", "N", "F", "I", "N", "I", "T", "Y">> }
        \/ /\ Cardinality(points) <= 1
           /\ \A k \in 1..Len(mantissa) : k \in points \/ DigitValue(mantissa[k]) # -1
           /\ Len(mantissa) > Cardinality(points)
           /\ marks # {} => IsDigits(Unsigned(exponent))

\* s without its leading zeros.
RECURSIVE StripZeros(_)
StripZeros(s) == IF s # <<>> /\ s[1] = "0" THEN StripZeros(Tail(s)) ELSE s

\* str::parse::<u32> is Ok: an optional `+`, then decimal digits of a value
\* of at most u32::MAX.
parse_u32_is_ok(s) ==
    LET u == IF s # <<>> /\ s[1] = "+" THEN Tail(s) ELSE s
        d == StripZeros(u)
        max == <<"4", "2", "9", "4", "9", "6", "7", "2", "9", "5">>
        differ == {k \in 1..Len(d) : d[k] # max[k]}
    IN  /\ IsDigits(u)
        /\ \/ Len(d) < Len(max)
           \/ /\ Len(d) = Len(max)
              /\ differ = {} \/ DigitValue(d[Min(differ)]) < DigitValue(max[Min(differ)])

\* The lines a function of the macro library (circlegen, landgen, actorgen)
\* returns, abstracted to one line naming the call and its arguments.
MacroLibrary(name, args) == << <<"<">> \o name \o args \o <<">">> >>

\* expand_line that passes a line with unparsable arguments through.
expand_line_lenient(line) ==
    LET upper == to_uppercase(line)
        i == find(line, <<"(">>)
        j == find(line, <<",">>)
        k == find(line, <<")">>)
    IN  IF i # -1
        THEN IF j = -1 THEN << <<line>> >>
             ELSE IF k = -1 THEN << <<line>> >>
             ELSE IF i + 1 > j \/ ~parse_f64_is_ok(Slice(line, i + 1, j))
                  THEN << <<line>> >>
             ELSE IF j + 1 > k \/ ~parse_u32_is_ok(Slice(line, j + 1, k))
                  THEN << <<line>> >>
             ELSE IF Slice(upper, 0, i) \in ParenMacros
                  THEN << MacroLibrary(Slice(upper, 0, i), Slice(line, i, k + 1)) >>
             ELSE << <<line>> >>
        ELSE IF upper \in PlainMacros
             THEN << MacroLibrary(upper, <<>>) >>
             ELSE << <<line>> >>

\* expand_line: <<the lines>>, or <<>> where a slice or an unwrap panics.
expand_line(line) ==
    LET upper == to_uppercase(line)
        i == find(line, <<"(">>)
        j == find(line, <<",">>)
        k == find(line, <<")">>)
    IN  IF i # -1
        THEN IF j = -1 THEN << <<line>> >>
             ELSE IF k = -1 THEN << <<line>> >>
             ELSE IF i + 1 > j \/ ~parse_f64_is_ok(Slice(line, i + 1, j))
                  THEN <<>>
             ELSE IF j + 1 > k \/ ~parse_u32_is_ok(Slice(line, j + 1, k))
                  THEN <<>>
             ELSE IF Slice(upper, 0, i) \in ParenMacros
                  THEN << MacroLibrary(Slice(upper, 0, i), Slice(line, i, k + 1)) >>
             ELSE << <<line>> >>
        ELSE IF upper \in PlainMacros
             THEN << MacroLibrary(upper, <<>>) >>
             ELSE << <<line>> >>

\* The lines the model calls expand_line with: a name followed by any text
\* of the characters of an argument list up to the bound, and lines with
\* longer arguments.
ExpandInputs ==
    LET names ==
            { <<"#", "c", "i", "r", "c", "l", "e", "_", "l", "a", "b", "e", "l",
                "s">>,
              <<"#", "R", "O", "C", "K", "G", "E", "N">>,
              <<"#", "F", "O", "O">> }
        long ==
            { <<"#", "C", "I", "R", "C", "L", "E", "_", "L", "A", "B", "E", "L",
                "S", "(", "1", ".", "5", ",", "1", "0", ")">>,
              <<"#", "C", "I", "R", "C", "L", "E", "_", "L", "A", "B", "E", "L",
                "S", "(", "1", "0", ",", "1", ".", "5", ")">>,
              <<"#", "s", "q", "u", "a", "r", "e", "_", "p", "o", "s", "i", "t",
                "i", "o", "n", "_", "p", "2", "(", ".", "5", ",", "4", "5", ")">>,
              <<"#", "F", "O", "O", "(", "1", "2", ",", "3", "4", ")">> }
    IN  {name \o args : name \in names,
                        args \in SeqsUpTo({"(", ",", ")", "1", ".", "a"}, MaxArgLen)}
            \cup long

InitExpand ==
    /\ fn = "expand_line"
    /\ status = "running"
    /\ arg_s \in ExpandInputs
    /\ lines = <<>>
    /\ InitIdle
    /\ header = <<>>
    /\ InitRndVars
    /\ InitAreaVars
    /\ InitCallVars

\* A call of expand_line(arg_s).
ExpandLineCall ==
    /\ fn = "expand_line"
    /\ status = "running"
    /\ IF expand_line(arg_s) = <<>>
       THEN status' = "panicked" /\ UNCHANGED ret
       ELSE status' = "returned" /\ ret' = expand_line(arg_s)
    /\ UNCHANGED <<fn, lines, pos, output, repeats, object, every_player,
                   num_players, comment_depth, arg_s, arg_depth,
                   header, rnd_vars, area_vars, call_vars>>

NextExpand == ExpandLineCall

SpecExpand == InitExpand /\ [][NextExpand]_vars

(***************************************************************************)
(* probs                                                                   *)
(***************************************************************************)
\* The total prob_definitions divides among the values of a range.
PERCENT == 100

\* probs with the remainder given to the last weights.
probs_remainder_last(n, m) ==
    LET q == n \div m
        r == n % m
    IN  [k \in 1..m |-> IF k <= m - r THEN q ELSE q + 1]

\* probs(n, m) for m > 0: r pushes of q + 1, then m - r pushes of q.
probs(n, m) ==
    LET q == n \div m
        r == n % m
    IN  [k \in 1..r |-> q + 1] \o [k \in 1..(m - r) |-> q]

InitProbs ==
    /\ fn = "probs"
    /\ status = "running"
    /\ arg_n = PERCENT
    /\ arg_m \in 0..PERCENT
    /\ calls = <<>>
    /\ dest = <<>>
    /\ lines = <<>>
    /\ arg_s = <<>>
    /\ InitIdle
    /\ header = <<>>
    /\ InitRndVars
    /\ InitAreaVars

\* A call of probs(arg_n, arg_m); the division by m = 0 panics.
ProbsCall ==
    /\ fn = "probs"
    /\ status = "running"
    /\ IF arg_m = 0
       THEN status' = "panicked" /\ UNCHANGED ret
       ELSE status' = "returned" /\ ret' = <<probs(arg_n, arg_m)>>
    /\ UNCHANGED <<fn, lines, pos, output, repeats, object, every_player,
                   num_players, comment_depth, arg_s, arg_depth,
                   header, rnd_vars, area_vars, call_vars>>

NextProbs == ProbsCall

SpecProbs == InitProbs /\ [][NextProbs]_vars

(***************************************************************************)
(* next_label                                                              *)
(***************************************************************************)
\* (c + 1) as char for a byte c from 0 to Y, by the ASCII characters from 0
\* to Z in the order of their codes.
NextChar(c) ==
    LET ascii ==
            <<"0", "1", "2", "3", "4", "5", "6", "7", "8", "9", ":", ";", "<",
              "=", ">", "?", "@", "A", "B", "C", "D", "E", "F", "G", "H", "I",
              "J", "K", "L", "M", "N", "O", "P", "Q", "R", "S", "T", "U", "V",
              "W", "X", "Y", "Z">>
    IN  ascii[(CHOOSE k \in 1..Len(ascii) : ascii[k] = c) + 1]

\* next_label that wraps a trailing Z around to A.
next_label_wrapping(label) ==
    IF label = <<>> THEN <<"_", "A">>
    ELSE LET n == Len(label[1])
             last == label[1][n]
         IN  IF last = "Z"
             THEN Slice(label[1], 0, n - 1) \o <<"A">>
             ELSE Slice(label[1], 0, n - 1) \o <<NextChar(last)>>

\* next_label(label) for the Option label: <<>> is None, <<text>> is
\* Some(text) with text not empty.
next_label(label) ==
    IF label = <<>> THEN <<"_", "A">>
    ELSE LET n == Len(label[1])
             last == label[1][n]
         IN  IF last = "Z"
             THEN label[1] \o <<"A">>
             ELSE Slice(label[1], 0, n - 1) \o <<NextChar(last)>>

InitLabel ==
    /\ fn = "next_label"
    /\ status = "running"
    /\ rnd_label \in { <<>>, << <<>> >>, << <<"X">> >>, << <<"_", "Z", "Z", "Y">> >>,
                       << <<"_", "@">> >>, << <<"_", "9">> >> }
    /\ preamble = <<>>
    /\ rnd_body = <<>>
    /\ finished_land = FALSE
    /\ lines = <<>>
    /\ arg_s = <<>>
    /\ InitIdle
    /\ header = <<>>
    /\ InitAreaVars
    /\ InitCallVars

\* A call of next_label(rnd_label) whose result is the argument of the next
\* call; calls records the argument and the result.
LabelCall ==
    /\ fn = "next_label"
    /\ status = "running"
    /\ Len(calls) < MaxLabelCalls
    /\ IF rnd_label = <<>> THEN TRUE ELSE rnd_label[1] # <<>>
    /\ rnd_label' = <<next_label(rnd_label)>>
    /\ calls' = Append(calls, <<rnd_label, next_label(rnd_label)>>)
    /\ UNCHANGED <<fn, status, lines, pos, output, ret, repeats, object,
                   every_player, num_players, comment_depth, arg_s, arg_depth,
                   header, preamble, rnd_body, finished_land, area_vars,
                   arg_n, arg_m, dest>>

\* next_label(&Some("")): the index n - 1 of the last byte does not exist.
LabelPanic ==
    /\ fn = "next_label"
    /\ status = "running"
    /\ rnd_label = << <<>> >>
    /\ status' = "panicked"
    /\ UNCHANGED <<fn, lines, pos, output, ret, repeats, object,
                   every_player, num_players, comment_depth, arg_s, arg_depth,
                   header, rnd_vars, area_vars, call_vars>>

NextLabel == LabelCall \/ LabelPanic

SpecLabel == InitLabel /\ [][NextLabel]_vars

(***************************************************************************)
(* extract_rnd                                                             *)
(***************************************************************************)
EXTRACT_RND ==
    <<"#", "E", "X", "T", "R", "A", "C", "T", "_", "R", "N", "D">>
ELEVATION_GENERATION ==
    <<"E", "L", "E", "V", "A", "T", "I", "O", "N", "_", "G", "E", "N", "E",
      "R", "A", "T", "I", "O", "N">>
RND == <<"r", "n", "d">>
START_RANDOM ==
    <<"s", "t", "a", "r", "t", "_", "r", "a", "n", "d", "o", "m">>
HASH_DEFINE ==
    <<"#", "d", "e", "f", "i", "n", "e">>
IF_DELIM == <<"i", "f">>

\* str::contains
contains(str, pat) == find(str, pat) # -1

\* prob_definitions(label, min, max) for min < max.
prob_definitions(label, min, max) ==
    LET length == max + 1 - min
        percents == probs(PERCENT, length)
    IN  join(<<START_RANDOM>>
             \o [k \in 1..length |->
                    <<"p", "e", "r", "c", "e", "n", "t", "_", "c", "h", "a", "n", "c", "e">>
                        \o <<" ">> \o to_string(percents[k]) \o <<" ">>
                        \o HASH_DEFINE \o <<" ">> \o label \o <<"_">> \o to_string(k - 1)]
             \o << <<"e", "n", "d", "_", "r", "a", "n", "d", "o", "m">> >>)

\* prob_conditional with the values paired with the names in reverse.
prob_conditional_descending(label, instruction, min, max) ==
    join([k \in 1..(max + 1 - min) |->
             (IF k = 1 THEN IF_DELIM ELSE <<"e", "l", "s", "e">> \o IF_DELIM) \o <<" ">> \o label
                 \o <<"_">> \o to_string(k - 1) \o <<NL>> \o instruction
                 \o <<" ">> \o to_string(max + 1 - k)]
         \o << <<"e", "n", "d", "i", "f">> >>)

\* prob_conditional(label, instruction, min, max)
prob_conditional(label, instruction, min, max) ==
    join([k \in 1..(max + 1 - min) |->
             (IF k = 1 THEN IF_DELIM ELSE <<"e", "l", "s", "e">> \o IF_DELIM) \o <<" ">> \o label
                 \o <<"_">> \o to_string(k - 1) \o <<NL>> \o instruction
                 \o <<" ">> \o to_string(min + k - 1)]
         \o << <<"e", "n", "d", "i", "f">> >>)

\* extract_random_line(line): <<instruction, min, max>>, or <<>> where an
\* unwrap or a slice panics.
extract_random_line(line) ==
    LET h == find(line, <<" ">>)
        i == find(line, <<"(">>)
        j == find(line, <<",">>)
        k == find(line, <<")">>)
    IN  IF h = -1 \/ i = -1 \/ j = -1 \/ k = -1 THEN <<>>
        ELSE IF i + 1 > j \/ ~parse_u32_is_ok(Slice(line, i + 1, j)) THEN <<>>
        ELSE IF j + 1 > k \/ ~parse_u32_is_ok(Slice(line, j + 1, k)) THEN <<>>
        ELSE <<Slice(line, 0, h),
               parse_usize(Unsigned(Slice(line, i + 1, j))),
               parse_usize(Unsigned(Slice(line, j + 1, k)))>>

\* The scripts of the model: those of up to MaxRndLines lines over the flag
\* in both cases, a marker line, lines with rnd and a line without, and
\* four more, of which the first has more rewritten lines than there are
\* letters.
RndScripts ==
    LET flag == EXTRACT_RND
        flag_lower == <<"#", "e", "x", "t", "r", "a", "c", "t", "_", "r", "n", "d">>
        marker == <<"<">> \o ELEVATION_GENERATION \o <<">">>
        marker_rnd == ELEVATION_GENERATION \o <<" ">> \o RND \o <<"(", "1", ",", "2", ")">>
        line_n == <<"n", " ">> \o RND \o <<"(", "1", ",", "3", ")">>
        line_m == <<"m", " ">> \o RND \o <<"(", "0", ",", "1", ")">>
        empty_range == <<"x", " ">> \o RND \o <<"(", "2", ",", "2", ")">>
        foo == <<"f", "o", "o">>
    IN  SeqsUpTo({flag, flag_lower, marker, line_n, line_m, RND, foo}, MaxRndLines)
            \cup { <<flag, marker>> \o [k \in 1..(Len(UpperCase) + 1) |-> line_n],
                   <<flag, marker_rnd, line_n>>,
                   <<marker_rnd, line_n>>,
                   <<flag_lower, marker, empty_range>> }

InitRnd ==
    /\ fn = "extract_rnd"
    /\ status = "running"
    /\ lines \in RndScripts
    /\ arg_s = <<>>
    /\ InitIdle
    /\ header = <<>>
    /\ InitRndVars
    /\ InitAreaVars
    /\ InitCallVars

\* The loop of extract_rnd is at lines[pos + 1]; rnd_label is <<>> until
\* label is bound.
RndLooping ==
    /\ fn = "extract_rnd"
    /\ status = "running"
    /\ rnd_label # <<>>
    /\ pos < Len(lines)

\* No line is the flag: the lines are returned as they are.
RndNotRequested ==
    /\ fn = "extract_rnd"
    /\ status = "running"
    /\ rnd_label = <<>>
    /\ \A k \in 1..Len(lines) : ~eq_ignore_ascii_case(lines[k], EXTRACT_RND)
    /\ status' = "returned"
    /\ ret' = <<lines>>
    /\ UNCHANGED <<fn, lines, pos, output, repeats, object, every_player,
                   num_players, comment_depth, arg_s, arg_depth,
                   header, rnd_vars, area_vars, call_vars>>

\* Some line is the flag: preamble, body, label and finished_land are bound.
RndRequested ==
    /\ fn = "extract_rnd"
    /\ status = "running"
    /\ rnd_label = <<>>
    /\ \E k \in 1..Len(lines) : eq_ignore_ascii_case(lines[k], EXTRACT_RND)
    /\ preamble' = <<>>
    /\ rnd_body' = <<>>
    /\ rnd_label' = <<next_label(<<>>)>>
    /\ finished_land' = FALSE
    /\ UNCHANGED <<fn, status, lines, pos, output, ret, repeats, object,
                   every_player, num_players, comment_depth, arg_s, arg_depth,
                   header, area_vars, call_vars>>

\* The flag line copied to the body.
RndSkipFlagCopying ==
    /\ RndLooping
    /\ eq_ignore_ascii_case(lines[pos + 1], EXTRACT_RND)
    /\ pos' = pos + 1
    /\ rnd_body' = Append(rnd_body, lines[pos + 1])
    /\ UNCHANGED <<fn, status, lines, output, ret, repeats, object,
                   every_player, num_players, comment_depth, arg_s, arg_depth,
                   header, preamble, rnd_label, finished_land, area_vars, call_vars>>

\* The flag line is not copied.
RndSkipFlag ==
    /\ RndLooping
    /\ eq_ignore_ascii_case(lines[pos + 1], EXTRACT_RND)
    /\ pos' = pos + 1
    /\ UNCHANGED <<fn, status, lines, output, ret, repeats, object,
                   every_player, num_players, comment_depth, arg_s, arg_depth,
                   header, rnd_vars, area_vars, call_vars>>

\* A line of land generation, kept; the marker line ends land generation.
RndLand ==
    /\ RndLooping
    /\ ~eq_ignore_ascii_case(lines[pos + 1], EXTRACT_RND)
    /\ ~finished_land
    /\ finished_land' = contains(lines[pos + 1], ELEVATION_GENERATION)
    /\ rnd_body' = Append(rnd_body, lines[pos + 1])
    /\ pos' = pos + 1
    /\ UNCHANGED <<fn, status, lines, output, ret, repeats, object,
                   every_player, num_players, comment_depth, arg_s, arg_depth,
                   header, preamble, rnd_label, area_vars, call_vars>>

\* A later line without rnd, kept.
RndKeep ==
    /\ RndLooping
    /\ ~eq_ignore_ascii_case(lines[pos + 1], EXTRACT_RND)
    /\ finished_land
    /\ ~contains(lines[pos + 1], RND)
    /\ rnd_body' = Append(rnd_body, lines[pos + 1])
    /\ pos' = pos + 1
    /\ UNCHANGED <<fn, status, lines, output, ret, repeats, object,
                   every_player, num_players, comment_depth, arg_s, arg_depth,
                   header, preamble, rnd_label, finished_land, area_vars,
                   call_vars>>

\* The line can be rewritten: extract_random_line returns and min < max.
RndExtractable(line) ==
    IF extract_random_line(line) = <<>> THEN FALSE
    ELSE extract_random_line(line)[2] < extract_random_line(line)[3]

\* A later line with rnd, rewritten under the label that is not advanced.
RndRewriteSameLabel ==
    /\ RndLooping
    /\ ~eq_ignore_ascii_case(lines[pos + 1], EXTRACT_RND)
    /\ finished_land
    /\ contains(lines[pos + 1], RND)
    /\ RndExtractable(lines[pos + 1])
    /\ LET e == extract_random_line(lines[pos + 1])
       IN  /\ preamble' = Append(preamble, prob_definitions(rnd_label[1], e[2], e[3]))
           /\ rnd_body' = Append(rnd_body, prob_conditional(rnd_label[1], e[1], e[2], e[3]))
    /\ pos' = pos + 1
    /\ UNCHANGED <<fn, status, lines, output, ret, repeats, object,
                   every_player, num_players, comment_depth, arg_s, arg_depth,
                   header, rnd_label, finished_land, area_vars, call_vars>>

\* A later line with rnd, rewritten.
RndRewrite ==
    /\ RndLooping
    /\ ~eq_ignore_ascii_case(lines[pos + 1], EXTRACT_RND)
    /\ finished_land
    /\ contains(lines[pos + 1], RND)
    /\ RndExtractable(lines[pos + 1])
    /\ LET e == extract_random_line(lines[pos + 1])
       IN  /\ preamble' = Append(preamble, prob_definitions(rnd_label[1], e[2], e[3]))
           /\ rnd_body' = Append(rnd_body, prob_conditional(rnd_label[1], e[1], e[2], e[3]))
    /\ rnd_label' = <<next_label(rnd_label)>>
    /\ pos' = pos + 1
    /\ UNCHANGED <<fn, status, lines, output, ret, repeats, object,
                   every_player, num_players, comment_depth, arg_s, arg_depth,
                   header, finished_land, area_vars, call_vars>>

\* A later line with rnd on which extract_random_line or the assertion of
\* prob_definitions panics.
RndPanic ==
    /\ RndLooping
    /\ ~eq_ignore_ascii_case(lines[pos + 1], EXTRACT_RND)
    /\ finished_land
    /\ contains(lines[pos + 1], RND)
    /\ ~RndExtractable(lines[pos + 1])
    /\ status' = "panicked"
    /\ UNCHANGED <<fn, lines, pos, output, ret, repeats, object, every_player,
                   num_players, comment_depth, arg_s, arg_depth,
                   header, rnd_vars, area_vars, call_vars>>

\* The output with the body before the preamble.
RndFinishBodyFirst ==
    /\ fn = "extract_rnd"
    /\ status = "running"
    /\ rnd_label # <<>>
    /\ pos = Len(lines)
    /\ status' = "returned"
    /\ ret' = <<rnd_body \o preamble>>
    /\ UNCHANGED <<fn, lines, pos, output, repeats, object, every_player,
                   num_players, comment_depth, arg_s, arg_depth,
                   header, rnd_vars, area_vars, call_vars>>

\* The end of the loop: the preamble, then the body.
RndFinish ==
    /\ fn = "extract_rnd"
    /\ status = "running"
    /\ rnd_label # <<>>
    /\ pos = Len(lines)
    /\ status' = "returned"
    /\ ret' = <<preamble \o rnd_body>>
    /\ UNCHANGED <<fn, lines, pos, output, repeats, object, every_player,
                   num_players, comment_depth, arg_s, arg_depth,
                   header, rnd_vars, area_vars, call_vars>>

NextRnd ==
    \/ RndNotRequested
    \/ RndRequested
    \/ RndSkipFlag
    \/ RndLand
    \/ RndKeep
    \/ RndRewrite
    \/ RndPanic
    \/ RndFinish

SpecRnd == InitRnd /\ [][NextRnd]_vars

(***************************************************************************)
(* substitute_actor_area_names                                             *)
(***************************************************************************)
ACTOR_AREA ==
    <<"a", "c", "t", "o", "r", "_", "a", "r", "e", "a">>
CREATE_ACTOR_AREA ==
    <<"c", "r", "e", "a", "t", "e", "_", "a", "c", "t", "o", "r", "_", "a",
      "r", "e", "a">>
AVOID_ACTOR_AREA ==
    <<"a", "v", "o", "i", "d", "_", "a", "c", "t", "o", "r", "_", "a", "r",
      "e", "a">>
ACTOR_AREA_TO_PLACE_IN ==
    <<"a", "c", "t", "o", "r", "_", "a", "r", "e", "a", "_", "t", "o", "_",
      "p", "l", "a", "c", "e", "_", "i", "n">>

\* HashMap::contains_key and HashMap::get of a map held as a set of
\* <<name, id>> pairs with one pair for a name.
contains_key(areas, name) == \E pair \in areas : pair[1] = name
get(areas, name) == (CHOOSE pair \in areas : pair[1] = name)[2]

\* The line is a declaration for pass 1.
AreaDeclares(line) ==
    \/ starts_with(line, ACTOR_AREA \o <<" ">>)
    \/ starts_with(line, CREATE_ACTOR_AREA \o <<" ">>)

\* The declaration has a name: the second unwrap of the create_actor_area
\* branch does not panic.
AreaNamed(line) ==
    \/ starts_with(line, ACTOR_AREA \o <<" ">>)
    \/ rfind(Slice(line, 0, rfind(line, <<" ">>)), <<" ">>) # -1

\* The name a declaration with a name declares.
AreaName(line) ==
    IF starts_with(line, ACTOR_AREA \o <<" ">>)
    THEN SliceFrom(line, find(line, <<" ">>) + 1)
    ELSE LET j == rfind(line, <<" ">>)
             i == rfind(Slice(line, 0, j), <<" ">>)
         IN  Slice(line, i + 1, j)

\* The closure of pass 2 that drops the text after the name of a
\* create_actor_area line.
substitute_area_line_truncating(line, areas) ==
    LET i == find(line, <<" ">>)
        command == Slice(line, 0, i)
    IN  IF i = -1 THEN line
        ELSE IF command \in {ACTOR_AREA, AVOID_ACTOR_AREA, ACTOR_AREA_TO_PLACE_IN}
        THEN IF contains_key(areas, SliceFrom(line, i + 1))
             THEN command \o <<" ">> \o to_string(get(areas, SliceFrom(line, i + 1)))
             ELSE line
        ELSE IF command = CREATE_ACTOR_AREA
        THEN LET k == rfind(line, <<" ">>)
                 j == rfind(Slice(line, 0, k), <<" ">>)
             IN  IF contains_key(areas, Slice(line, j + 1, k))
                 THEN Slice(line, 0, j) \o <<" ">>
                          \o to_string(get(areas, Slice(line, j + 1, k)))
                 ELSE line
        ELSE line

\* The closure of pass 2 on one line.
substitute_area_line(line, areas) ==
    LET i == find(line, <<" ">>)
        command == Slice(line, 0, i)
    IN  IF i = -1 THEN line
        ELSE IF command \in {ACTOR_AREA, AVOID_ACTOR_AREA, ACTOR_AREA_TO_PLACE_IN}
        THEN IF contains_key(areas, SliceFrom(line, i + 1))
             THEN command \o <<" ">> \o to_string(get(areas, SliceFrom(line, i + 1)))
             ELSE line
        ELSE IF command = CREATE_ACTOR_AREA
        THEN LET k == rfind(line, <<" ">>)
                 j == rfind(Slice(line, 0, k), <<" ">>)
             IN  IF contains_key(areas, Slice(line, j + 1, k))
                 THEN Slice(line, 0, j) \o <<" ">>
                          \o to_string(get(areas, Slice(line, j + 1, k)))
                          \o SliceFrom(line, k)
                 ELSE line
        ELSE line

\* The lines of the scripts of the model.
AreaAlphabet ==
    { ACTOR_AREA \o <<" ", "f", "o", "o">>,
      ACTOR_AREA \o <<" ", "b", "a", "r">>,
      CREATE_ACTOR_AREA \o <<" ", "1", " ", "2", " ", "f", "o", "o", " ", "3">>,
      CREATE_ACTOR_AREA \o <<" ", "1", " ", "2", " ", "b", "a", "z", " ", "3">>,
      AVOID_ACTOR_AREA \o <<" ", "f", "o", "o">>,
      ACTOR_AREA_TO_PLACE_IN \o <<" ", "b", "a", "r">>,
      CREATE_ACTOR_AREA \o <<" ", "f", "o", "o">>,
      <<"x">> }

InitArea ==
    /\ fn = "substitute_actor_area_names"
    /\ status = "running"
    /\ lines \in SeqsUpTo(AreaAlphabet, MaxAreaLines)
    /\ arg_s = <<>>
    /\ InitIdle
    /\ header = <<>>
    /\ InitRndVars
    /\ InitAreaVars
    /\ InitCallVars

\* Pass 1 is at lines[pos + 1].
AreaLooping ==
    /\ fn = "substitute_actor_area_names"
    /\ status = "running"
    /\ pos < Len(lines)

\* Pass 1: a line that declares nothing.
AreaSkip ==
    /\ AreaLooping
    /\ ~AreaDeclares(lines[pos + 1])
    /\ pos' = pos + 1
    /\ UNCHANGED <<fn, status, lines, output, ret, repeats, object,
                   every_player, num_players, comment_depth, arg_s, arg_depth,
                   header, rnd_vars, area_vars, call_vars>>

\* Pass 1: create_actor_area with one space, whose second rfind is None.
AreaPanic ==
    /\ AreaLooping
    /\ AreaDeclares(lines[pos + 1])
    /\ ~AreaNamed(lines[pos + 1])
    /\ status' = "panicked"
    /\ UNCHANGED <<fn, lines, pos, output, ret, repeats, object, every_player,
                   num_players, comment_depth, arg_s, arg_depth,
                   header, rnd_vars, area_vars, call_vars>>

\* Pass 1: a declaration of a new name.
AreaDeclare ==
    /\ AreaLooping
    /\ AreaDeclares(lines[pos + 1])
    /\ AreaNamed(lines[pos + 1])
    /\ ~contains_key(actor_areas, AreaName(lines[pos + 1]))
    /\ actor_areas' = actor_areas \cup {<<AreaName(lines[pos + 1]), next_id>>}
    /\ next_id' = next_id + 1
    /\ pos' = pos + 1
    /\ UNCHANGED <<fn, status, lines, output, ret, repeats, object,
                   every_player, num_players, comment_depth, arg_s, arg_depth,
                   header, rnd_vars, call_vars>>

\* A declaration of a name of the map that takes a new id.
AreaRedeclareOverwriting ==
    /\ AreaLooping
    /\ AreaDeclares(lines[pos + 1])
    /\ AreaNamed(lines[pos + 1])
    /\ contains_key(actor_areas, AreaName(lines[pos + 1]))
    /\ actor_areas' = {pair \in actor_areas : pair[1] # AreaName(lines[pos + 1])}
                          \cup {<<AreaName(lines[pos + 1]), next_id>>}
    /\ next_id' = next_id + 1
    /\ pos' = pos + 1
    /\ UNCHANGED <<fn, status, lines, output, ret, repeats, object,
                   every_player, num_players, comment_depth, arg_s, arg_depth,
                   header, rnd_vars, call_vars>>

\* Pass 1: a declaration of a name of the map.
AreaRedeclare ==
    /\ AreaLooping
    /\ AreaDeclares(lines[pos + 1])
    /\ AreaNamed(lines[pos + 1])
    /\ contains_key(actor_areas, AreaName(lines[pos + 1]))
    /\ pos' = pos + 1
    /\ UNCHANGED <<fn, status, lines, output, ret, repeats, object,
                   every_player, num_players, comment_depth, arg_s, arg_depth,
                   header, rnd_vars, area_vars, call_vars>>

\* Pass 2, after the last line of pass 1: the map over the lines.
AreaSubstitute ==
    /\ fn = "substitute_actor_area_names"
    /\ status = "running"
    /\ pos = Len(lines)
    /\ status' = "returned"
    /\ ret' = <<[k \in 1..Len(lines) |-> substitute_area_line(lines[k], actor_areas)]>>
    /\ UNCHANGED <<fn, lines, pos, output, repeats, object, every_player,
                   num_players, comment_depth, arg_s, arg_depth,
                   header, rnd_vars, area_vars, call_vars>>

NextArea ==
    \/ AreaSkip
    \/ AreaPanic
    \/ AreaDeclare
    \/ AreaRedeclare
    \/ AreaSubstitute

SpecArea == InitArea /\ [][NextArea]_vars
(***************************************************************************)
(* landgen::opponent_probability                                           *)
(***************************************************************************)
NUM_SLOTS == 20

\* opponent_probability with the difference 13 counted with 8 to 12.
opponent_probability_wide(p1_slot, p2_slot) ==
    LET min_slot == IF p1_slot <= p2_slot THEN p1_slot ELSE p2_slot
        max_slot == IF p1_slot >= p2_slot THEN p1_slot ELSE p2_slot
        difference == (max_slot - min_slot) % NUM_SLOTS
    IN  IF difference = 7 THEN 10
        ELSE IF difference \in {8, 9, 10, 11, 12, 13} THEN 16
        ELSE 0

\* landgen.rs 72-81, for slots that satisfy check_slot.
opponent_probability(p1_slot, p2_slot) ==
    LET min_slot == IF p1_slot <= p2_slot THEN p1_slot ELSE p2_slot
        max_slot == IF p1_slot >= p2_slot THEN p1_slot ELSE p2_slot
        difference == (max_slot - min_slot) % NUM_SLOTS
    IN  IF difference \in {7, 13} THEN 10
        ELSE IF difference \in {8, 9, 10, 11, 12} THEN 16
        ELSE 0

\* p1_slot is arg_n and p2_slot is arg_m, both in 0..NUM_SLOTS - 1.
InitOpponent ==
    /\ fn = "opponent_probability"
    /\ status = "running"
    /\ arg_n \in 0..(NUM_SLOTS - 1)
    /\ arg_m \in 0..(NUM_SLOTS - 1)
    /\ calls = <<>>
    /\ dest = <<>>
    /\ lines = <<>>
    /\ arg_s = <<>>
    /\ InitIdle
    /\ header = <<>>
    /\ InitRndVars
    /\ InitAreaVars

\* A call of opponent_probability(Slot(arg_n), Slot(arg_m)).
OpponentCall ==
    /\ fn = "opponent_probability"
    /\ status = "running"
    /\ status' = "returned"
    /\ ret' = <<opponent_probability(arg_n, arg_m)>>
    /\ UNCHANGED <<fn, lines, pos, output, repeats, object, every_player,
                   num_players, comment_depth, arg_s, arg_depth,
                   header, rnd_vars, area_vars, call_vars>>

NextOpponent == OpponentCall

SpecOpponent == InitOpponent /\ [][NextOpponent]_vars
(***************************************************************************)
(* insert_macros, write_until_break, process_script and main               *)
(***************************************************************************)
\* write_until_break that ends every line with a newline.
RECURSIVE write_until_break_trailing(_, _)
write_until_break_trailing(ls, delim) ==
    IF ls = <<>> THEN <<>>
    ELSE IF contains(to_uppercase(ls[1]), <<"#", "B", "R", "E", "A", "K">>) THEN <<>>
    ELSE ls[1] \o <<NL>> \o write_until_break_trailing(Tail(ls), delim)

\* lib.rs 587-597: the text written to dest for the lines ls that are left
\* when the local delim has the value delim.
RECURSIVE write_until_break(_, _)
write_until_break(ls, delim) ==
    IF ls = <<>> THEN <<>>
    ELSE IF contains(to_uppercase(ls[1]), <<"#", "B", "R", "E", "A", "K">>) THEN <<>>
    ELSE delim \o ls[1] \o write_until_break(Tail(ls), <<NL>>)

\* The state before main creates the destination of one script: lines are
\* the lines of the source file; the destination does not exist or holds
\* the text of an earlier run.  The scripts are those of up to
\* MaxProcessLines lines over the header sentinels, a line, a line with the
\* break sentinel and a blank line, a script that every pass changes, and
\* three on which assign_objects, extract_rnd and
\* substitute_actor_area_names panic.
InitProcess ==
    /\ fn = "main"
    /\ status = "running"
    /\ LET foo == <<"f", "o", "o">>
           break == <<"x", " ", "#", "B", "r", "e", "a", "k">>
           marker == <<"<">> \o ELEVATION_GENERATION \o <<">">>
           create == CREATE_OBJECT \o <<" ", "A">>
           area == ACTOR_AREA \o <<" ", "f", "o", "o">>
       IN  lines \in SeqsUpTo({HEADER_START, HEADER_END, foo, break, <<>>},
                              MaxProcessLines)
               \cup { << <<" ", "#", "h", "e", "a", "d", "e", "r", "_", "s", "t", "a", "r", "t">>,
                         <<"/", "*", " ", "#", "r", "e", "p", "e", "a", "t", "(">>,
                         <<>>,
                         HEADER_END,
                         EXTRACT_RND,
                         <<"#", "R", "E", "P", "E", "A", "T", "(", "2", ")">>,
                         <<" ", "f", "o", "o", " ", " ", "/", "*", " ", "c", " ", "*", "/">>,
                         END_REPEAT,
                         create, PLACE8, <<"x">>, CLOSE_BRACE,
                         create, SET_PLACE_FOR_EVERY_PLAYER, CLOSE_BRACE,
                         area, area,
                         AVOID_ACTOR_AREA \o <<" ", "f", "o", "o">>,
                         marker,
                         <<"n", " ">> \o RND \o <<"(", "1", ",", "3", ")">>,
                         <<"b", "a", "r">>,
                         <<"#", "b", "r", "e", "a", "k">>,
                         <<"t", "a", "i", "l">> >>,
                      << <<"#", "s", "e", "t", "_", "p", "l", "a", "c", "e", "_", "f",
                           "o", "r", "_", "e", "v", "e", "r", "y", "_", "p", "l", "a",
                           "y", "e", "r">> >>,
                      << EXTRACT_RND, marker,
                         <<"x", " ">> \o RND \o <<"(", "2", ",", "2", ")">> >>,
                      << CREATE_ACTOR_AREA \o <<" ", "f", "o", "o">> >> }
    /\ dest \in { <<>>, << <<"o", "l", "d">> >> }
    /\ arg_n = 0
    /\ arg_m = 0
    /\ calls = <<>>
    /\ arg_s = <<>>
    /\ InitIdle
    /\ header = <<>>
    /\ InitRndVars
    /\ InitAreaVars

\* main.rs 50-52 and lib.rs 606-607: File::create makes the destination or
\* truncates it, then process_script is called, reads the lines and calls
\* collect_header_comment.
MainCreate ==
    /\ fn = "main"
    /\ status = "running"
    /\ dest' = << <<>> >>
    /\ fn' = "collect_header_comment"
    /\ UNCHANGED <<status, lines, pos, output, ret, repeats, object,
                   every_player, num_players, comment_depth, arg_s, arg_depth,
                   header, rnd_vars, area_vars, arg_n, arg_m, calls>>

\* lib.rs 243-245: expand_line on every line, flattened; a panic of
\* expand_line is a panic of insert_macros.
InsertMacros ==
    /\ fn = "insert_macros"
    /\ status = "running"
    /\ LET expanded == [k \in 1..Len(lines) |-> expand_line(lines[k])]
       IN  IF \E k \in 1..Len(lines) : expanded[k] = <<>>
           THEN status' = "panicked" /\ UNCHANGED ret
           ELSE /\ status' = "returned"
                /\ ret' = <<collect_string([k \in 1..Len(lines) |-> expanded[k][1]])>>
    /\ UNCHANGED <<fn, lines, pos, output, repeats, object, every_player,
                   num_players, comment_depth, arg_s, arg_depth,
                   header, rnd_vars, area_vars, call_vars>>

\* lib.rs 607-619: a pass has returned and the next one is called with the
\* lines it returned; collect_header_comment returns the header with them.
ProcessStage ==
    /\ status = "returned"
    /\ LET stages == <<"collect_header_comment", "strip_comments",
                       "condense_whitespace", "insert_macros", "repeat_lines",
                       "assign_objects", "extract_rnd",
                       "substitute_actor_area_names">>
       IN  \E k \in 1..(Len(stages) - 1) :
              /\ fn = stages[k]
              /\ fn' = stages[k + 1]
              /\ IF k = 1
                 THEN header' = ret[1][1] /\ lines' = ret[1][2]
                 ELSE header' = header /\ lines' = ret[1]
    /\ status' = "running"
    /\ pos' = 0
    /\ output' = <<>>
    /\ ret' = <<>>
    /\ repeats' = <<>>
    /\ object' = <<>>
    /\ every_player' = FALSE
    /\ num_players' = 2
    /\ comment_depth' = 0
    /\ preamble' = <<>>
    /\ rnd_body' = <<>>
    /\ rnd_label' = <<>>
    /\ finished_land' = FALSE
    /\ next_id' = 20000
    /\ actor_areas' = {}
    /\ UNCHANGED <<arg_s, arg_depth, call_vars>>

\* ProcessWrite with the header after the lines of the last pass.
ProcessWriteHeaderLast ==
    /\ fn = "substitute_actor_area_names"
    /\ status = "returned"
    /\ fn' = "process_script"
    /\ lines' = ret[1]
    /\ output' = ret[1] \o header
    /\ dest' = <<write_until_break(ret[1] \o header, <<>>)>>
    /\ ret' = << <<>> >>
    /\ UNCHANGED <<status, pos, repeats, object, every_player, num_players,
                   comment_depth, arg_s, arg_depth, header, rnd_vars,
                   area_vars, arg_n, arg_m, calls>>

\* lib.rs 620-627 and main.rs 51-52: total is the header followed by the
\* lines of the last pass; write_until_break writes it to the buffer of
\* dest, which reaches the file when the writer is dropped.
ProcessWrite ==
    /\ fn = "substitute_actor_area_names"
    /\ status = "returned"
    /\ fn' = "process_script"
    /\ lines' = ret[1]
    /\ output' = header \o ret[1]
    /\ dest' = <<write_until_break(header \o ret[1], <<>>)>>
    /\ ret' = << <<>> >>
    /\ UNCHANGED <<status, pos, repeats, object, every_player, num_players,
                   comment_depth, arg_s, arg_depth, header, rnd_vars,
                   area_vars, arg_n, arg_m, calls>>

NextProcess ==
    \/ MainCreate
    \/ NextHeader
    \/ ProcessStage
    \/ NextComments
    \/ CondenseCall
    \/ InsertMacros
    \/ NextRepeat
    \/ NextObject
    \/ NextRnd
    \/ NextArea
    \/ ProcessWrite

SpecProcess == InitProcess /\ [][NextProcess]_vars

(***************************************************************************)
(* Claims about repeat_lines.                                              *)
(***************************************************************************)
\* The directive lines of the input, as the claims name them.
RepeatOpenLines ==
    { <<"#", "R", "E", "P", "E", "A", "T", "(", "0", ")">>,
      <<"#", "R", "E", "P", "E", "A", "T", "(", "2", ")">>,
      <<"#", "r", "e", "p", "e", "a", "t", "(", "3", ")">> }
RepeatCloseLines == {END_REPEAT}

\* The count written in an open directive of the input.
RepeatCountOf(line) ==
    CASE line[9] = "0" -> 0
      [] line[9] = "2" -> 2
      [] line[9] = "3" -> 3

\* Opens minus closes among the first k lines of the input.
RepeatNesting(k) ==
    Cardinality({i \in 1..k : lines[i] \in RepeatOpenLines})
        - Cardinality({i \in 1..k : lines[i] \in RepeatCloseLines})

\* The directives of the input are properly balanced.
RepeatBalanced ==
    /\ \A k \in 0..Len(lines) : RepeatNesting(k) >= 0
    /\ RepeatNesting(Len(lines)) = 0

\* body, n times
RECURSIVE ConcatTimes(_, _)
ConcatTimes(body, n) == IF n = 0 THEN <<>> ELSE body \o ConcatTimes(body, n - 1)

\* The loop is at the close of an un-nested block that opened at line o
\* and whose body is free of repeat directives.
AtPlainBlockClose(o) ==
    /\ RepeatHasLine
    /\ lines[pos + 1] \in RepeatCloseLines
    /\ o \in 1..pos
    /\ lines[o] \in RepeatOpenLines
    /\ RepeatNesting(o - 1) = 0
    /\ \A i \in (o + 1)..pos : lines[i] \notin RepeatOpenLines \cup RepeatCloseLines

\* C1: an un-nested #REPEAT(n) ... #END_REPEAT block with n >= 1 around a
\* body of k >= 1 lines free of repeat directives appends to the output the
\* body concatenated n times, n * k lines, and nothing else; the script
\* #REPEAT(2), foo, #END_REPEAT returns foo, foo.
C1_RepeatBlockExpands ==
    [][ /\ \A o \in 1..pos :
             ( /\ AtPlainBlockClose(o)
               /\ RepeatCountOf(lines[o]) >= 1
               /\ pos - o >= 1 )
             => /\ status' = "running"
                /\ output' = output \o ConcatTimes(SubSeq(lines, o + 1, pos),
                                                  RepeatCountOf(lines[o]))
                /\ Len(output') = Len(output) + RepeatCountOf(lines[o]) * (pos - o)
        /\ ( /\ status' = "returned"
             /\ lines = << <<"#", "R", "E", "P", "E", "A", "T", "(", "2", ")">>,
                           <<"f", "o", "o">>, END_REPEAT >> )
           => ret' = << << <<"f", "o", "o">>, <<"f", "o", "o">> >> >>
      ]_vars

\* #repeat(3) around foo, bar has been expanded to six lines and returned.
C1_Witness ==
    /\ fn = "repeat_lines"
    /\ status = "returned"
    /\ lines = << <<"#", "r", "e", "p", "e", "a", "t", "(", "3", ")">>,
                  <<"f", "o", "o">>, <<"b", "a", "r">>, END_REPEAT >>
    /\ Len(ret[1]) = 6

\* C2: #REPEAT(0) around any body yields zero lines: closing a frame whose
\* count is 0 leaves the output as it is when the block is un-nested, and
\* leaves the body of the parent frame as it is when it is nested.
C2_RepeatZeroYieldsNothing ==
    [][ ( /\ RepeatHasLine
          /\ lines[pos + 1] \in RepeatCloseLines
          /\ repeats # <<>>
          /\ repeats[Len(repeats)].count = 0 )
        => /\ output' = output
           /\ Len(repeats) > 1
              => repeats'[Len(repeats) - 1].lines = repeats[Len(repeats) - 1].lines
      ]_vars

\* C3: repeat_lines panics exactly when the directives are unbalanced: at
\* an #END_REPEAT met with an empty stack, or at the end of the input with
\* a frame left; a balanced input is returned with the stack empty.
C3_RepeatPanicsIffUnbalanced ==
    /\ [][ /\ ( /\ RepeatHasLine
                /\ lines[pos + 1] \in RepeatCloseLines
                /\ repeats = <<>> )
              => (status' = "panicked" /\ ret' = <<>>)
           /\ ( /\ RepeatRunning
                /\ pos = Len(lines)
                /\ repeats # <<>> )
              => (status' = "panicked" /\ ret' = <<>>)
           /\ (RepeatRunning /\ RepeatBalanced) => status' # "panicked"
         ]_vars
    /\ [](fn = "repeat_lines" =>
            /\ Len(repeats) = RepeatNesting(pos)
            /\ status = "panicked" =>
                  /\ ~RepeatBalanced
                  /\ ret = <<>>
                  /\ \/ /\ pos < Len(lines)
                        /\ lines[pos + 1] \in RepeatCloseLines
                        /\ RepeatNesting(pos) = 0
                     \/ /\ pos = Len(lines)
                        /\ RepeatNesting(pos) > 0
            /\ status = "returned" =>
                  /\ RepeatBalanced
                  /\ pos = Len(lines)
                  /\ repeats = <<>>
                  /\ ret = <<output>>)

\* A script of two nested blocks, closed in turn, has been returned.
C3_Witness ==
    /\ fn = "repeat_lines"
    /\ status = "returned"
    /\ RepeatBalanced
    /\ \E k \in 1..Len(lines) : RepeatNesting(k) = 2

(***************************************************************************)
(* Claims about assign_objects.                                            *)
(***************************************************************************)
\* The two every-player flag directives.
ObjectFlagLines == {SET_PLACE_FOR_EVERY_PLAYER, PLACE8}

\* After the first k lines of the input an object block is open: a line
\* starting with create_object was seen and no later `}` closed it.
RECURSIVE ObjectInBlock(_)
ObjectInBlock(k) ==
    IF k = 0 THEN FALSE
    ELSE IF ObjectInBlock(k - 1) THEN lines[k] # CLOSE_BRACE
    ELSE Len(lines[k]) >= 13 /\ SubSeq(lines[k], 1, 13) = CREATE_OBJECT

\* The line that opened the block open after the first k lines.
ObjectBlockStart(k) ==
    Max({i \in 1..k : ~ObjectInBlock(i - 1) /\ ObjectInBlock(i)})

\* line, land id k, and the closing brace, for k in 1..n, in ascending order.
RECURSIVE ObjectCopies(_, _)
ObjectCopies(body, n) ==
    IF n = 0 THEN <<>>
    ELSE ObjectCopies(body, n - 1)
            \o body
            \o <<PLACE_ON_SPECIFIC_LAND_ID \o <<DecimalDigits[n + 1]>>, CLOSE_BRACE>>

\* C4: at the closing brace of a block in which a flag directive was seen,
\* the block's lines without the flag directives are emitted once for each
\* player index 1..count in ascending order, each copy followed by
\* place_on_specific_land_id <index> and `}` (count 2 for
\* #SET_PLACE_FOR_EVERY_PLAYER, 8 for #PLACE8), and the flag is cleared; a
\* block without a flag directive is emitted verbatim once.
C4_ObjectCloseEmits ==
    [][ ( /\ ObjectHasLine
          /\ ObjectInBlock(pos)
          /\ lines[pos + 1] = CLOSE_BRACE )
        => LET o == ObjectBlockStart(pos)
               flags == {i \in (o + 1)..pos : lines[i] \in ObjectFlagLines}
               body == SelectSeq(SubSeq(lines, o, pos),
                                 LAMBDA l : l \notin ObjectFlagLines)
               count == IF lines[Max(flags)] = PLACE8 THEN 8 ELSE 2
           IN  /\ every_player' = FALSE
               /\ status' = "running"
               /\ IF flags = {}
                  THEN output' = output \o SubSeq(lines, o, pos + 1)
                  ELSE /\ output' = output \o ObjectCopies(body, count)
                       /\ Len(output') = Len(output) + count * (Len(body) + 2)
      ]_vars

\* A block holding #PLACE8 has been emitted eight times and returned.
C4_Witness ==
    /\ fn = "assign_objects"
    /\ status = "returned"
    /\ lines = <<CREATE_OBJECT \o <<" ", "A">>, <<"f", "o", "o">>, PLACE8, CLOSE_BRACE>>
    /\ Len(ret[1]) = 32
    /\ ret[1][31] = PLACE_ON_SPECIFIC_LAND_ID \o <<"8">>

\* C5: a line equal to #SET_PLACE_FOR_EVERY_PLAYER or to #PLACE8 met while
\* no block is open is a fatal error and is never copied to the output.
C5_FlagOutsideBlockIsFatal ==
    [][ ( /\ ObjectHasLine
          /\ ~ObjectInBlock(pos)
          /\ lines[pos + 1] \in ObjectFlagLines )
        => (status' = "panicked" /\ output' = output)
      ]_vars

\* C6: if the input ends while a block is open, assign_objects panics and
\* returns nothing; it returns only when no block is open.
C6_UnclosedObjectIsFatal ==
    /\ [][ ( /\ ObjectRunning
             /\ pos = Len(lines)
             /\ ObjectInBlock(Len(lines)) )
           => (status' = "panicked" /\ ret' = <<>>)
         ]_vars
    /\ []((fn = "assign_objects" /\ status = "returned")
            => (~ObjectInBlock(Len(lines)) /\ object = <<>>))
    /\ []((fn = "assign_objects" /\ status = "panicked") => ret = <<>>)

\* The input ended inside a block of three pending lines.
C6_Witness ==
    /\ fn = "assign_objects"
    /\ status = "panicked"
    /\ pos = Len(lines)
    /\ Len(object) = 3
    /\ ret = <<>>

(***************************************************************************)
(* Claims about strip_line_comments and strip_comments.                    *)
(***************************************************************************)
\* One of the two delimiters starts at 0-based index k of str.
OpenAt(str, k) == k + 2 <= Len(str) /\ str[k + 1] = "/" /\ str[k + 2] = "*"
CloseAt(str, k) == k + 2 <= Len(str) /\ str[k + 1] = "*" /\ str[k + 2] = "/"

\* str read from index k on, character by character, inside a comment or
\* not: whether its delimiters come in balanced, non-nested pairs, and the
\* text outside of them.
RECURSIVE PairScan(_, _, _)
PairScan(str, k, inside) ==
    IF k >= Len(str) THEN [ok |-> ~inside, text |-> <<>>]
    ELSE IF OpenAt(str, k)
         THEN IF inside THEN [ok |-> FALSE, text |-> <<>>]
              ELSE PairScan(str, k + 2, TRUE)
    ELSE IF CloseAt(str, k)
         THEN IF inside THEN PairScan(str, k + 2, FALSE)
              ELSE [ok |-> FALSE, text |-> <<>>]
    ELSE LET rest == PairScan(str, k + 1, inside)
         IN  [ok |-> rest.ok,
              text |-> IF inside THEN rest.text ELSE <<str[k + 1]>> \o rest.text]

\* C7: for a line of text and balanced, non-nested comment pairs,
\* strip_line_comments at depth 0 returns the text outside of the pairs,
\* character for character, and depth 0; `/* this is a comment */` gives
\* the empty string.
C7_BalancedPairsRemoved ==
    (fn = "strip_line_comments" /\ status = "returned" /\ arg_depth = 0) =>
        /\ PairScan(arg_s, 0, FALSE).ok
              => ret[1] = <<PairScan(arg_s, 0, FALSE).text, 0>>
        /\ arg_s = TEST_ENTIRE_LINE => ret[1] = <<<<>>, 0>>

\* The line a/**/a has been stripped to aa at depth 0.
C7_Witness ==
    /\ fn = "strip_line_comments"
    /\ status = "returned"
    /\ arg_depth = 0
    /\ arg_s = <<"a", "/", "*", "*", "/", "a">>
    /\ PairScan(arg_s, 0, FALSE).ok
    /\ ret[1] = <<<<"a", "a">>, 0>>

\* str holds neither delimiter.
NoDelimiter(str) ==
    \A k \in 0..Len(str) : ~OpenAt(str, k) /\ ~CloseAt(str, k)

\* C8: for a line without delimiters, the empty line included,
\* strip_line_comments returns the line unchanged at depth 0 and the empty
\* string at a depth above 0, and the depth it was given in both cases.
C8_NoDelimiterLine ==
    (fn = "strip_line_comments" /\ status = "returned" /\ NoDelimiter(arg_s)) =>
        /\ arg_depth = 0 => ret[1] = <<arg_s, 0>>
        /\ arg_depth > 0 => ret[1] = <<<<>>, arg_depth>>

\* A line without delimiters has been stripped to nothing at depth 3.
C8_Witness ==
    /\ fn = "strip_line_comments"
    /\ status = "returned"
    /\ arg_depth = 3
    /\ arg_s = <<"a", "*", "a", "/", "a">>
    /\ ret[1] = <<<<>>, 3>>

\* The 0-based index of the first delimiter of str, Len(str) if none.
FirstDelimiter(str) ==
    Min({k \in 0..Len(str) : OpenAt(str, k) \/ CloseAt(str, k) \/ k = Len(str)})

\* C9: at depth 0, a line whose first delimiter is a close delimiter keeps
\* its text up to and including that delimiter, and the rest of the line is
\* stripped at depth 0; a line with close delimiters only is returned as it
\* is, at depth 0.
C9_UnbalancedCloseKept ==
    (fn = "strip_line_comments" /\ status = "returned" /\ arg_depth = 0) =>
        /\ CloseAt(arg_s, FirstDelimiter(arg_s)) =>
              LET j == FirstDelimiter(arg_s)
                  rest == strip_line_comments(SubSeq(arg_s, j + 3, Len(arg_s)), 0)
              IN  ret[1] = <<SubSeq(arg_s, 1, j + 2) \o rest[1], rest[2]>>
        /\ (\A k \in 0..Len(arg_s) : ~OpenAt(arg_s, k)) => ret[1] = <<arg_s, 0>>

\* A line with two unbalanced close delimiters has been returned as it is.
C9_Witness ==
    /\ fn = "strip_line_comments"
    /\ status = "returned"
    /\ arg_depth = 0
    /\ arg_s = <<"a", "*", "/", "*", "/", "a">>
    /\ ret[1] = <<arg_s, 0>>

\* str read from index k on at depth d, character by character: the text
\* kept and the depth at the end of the line.
RECURSIVE DepthScan(_, _, _)
DepthScan(str, k, d) ==
    IF k >= Len(str) THEN <<<<>>, d>>
    ELSE IF OpenAt(str, k) THEN DepthScan(str, k + 2, d + 1)
    ELSE IF CloseAt(str, k)
         THEN IF d > 0 THEN DepthScan(str, k + 2, d - 1)
              ELSE LET rest == DepthScan(str, k + 2, 0)
                   IN  <<CLOSE_COMMENT \o rest[1], rest[2]>>
    ELSE LET rest == DepthScan(str, k + 1, d)
         IN  <<IF d = 0 THEN <<str[k + 1]>> \o rest[1] ELSE rest[1], rest[2]>>

\* The depth at the end of line k of the input, 0 before the first line.
RECURSIVE DepthAfter(_)
DepthAfter(k) ==
    IF k = 0 THEN 0 ELSE DepthScan(lines[k], 0, DepthAfter(k - 1))[2]

\* C10: in strip_comments the depth is 0 before the first line, every line
\* is stripped at the depth the line before it ended at, and the depth is
\* never negative.
C10_DepthThreaded ==
    fn = "strip_comments" =>
        /\ pos = 0 => comment_depth = 0
        /\ comment_depth = DepthAfter(pos)
        /\ comment_depth >= 0
        /\ Len(output) = pos
        /\ \A k \in 1..pos : output[k] = DepthScan(lines[k], 0, DepthAfter(k - 1))[1]

\* A comment opened twice on the first line is closed once on the second
\* and still open on the third.
C10_Witness ==
    /\ fn = "strip_comments"
    /\ status = "returned"
    /\ lines = << <<"/", "*", "/", "*">>, <<"a", "*", "/", "a">>, <<"a">> >>
    /\ comment_depth = 1
    /\ ret[1] = << <<>>, <<>>, <<>> >>

(***************************************************************************)
(* Claims about the whitespace condenser.                                  *)
(***************************************************************************)
\* The whitespace characters among those of the model's lines.
Blank(c) == c = " " \/ c = "\t"

\* The lines of the input that hold a character that is not whitespace.
CondenseKept == {i \in 1..Len(lines) : \E k \in 1..Len(lines[i]) : ~Blank(lines[i][k])}

\* C11: condensing a condensed line returns it unchanged; a condensed line
\* neither starts nor ends with whitespace and has no two whitespace
\* characters in a row; an all-whitespace line condenses to the empty
\* string; condense_whitespace drops exactly the lines that become empty and
\* keeps the others, condensed, in their order.
C11_CondenseIdempotent ==
    /\ (fn = "condense_line_whitespace" /\ status = "returned") =>
          LET r == ret[1]
          IN  /\ condense_line_whitespace(r) = r
              /\ r # <<>> => (~Blank(r[1]) /\ ~Blank(r[Len(r)]))
              /\ \A k \in 1..(Len(r) - 1) : ~(Blank(r[k]) /\ Blank(r[k + 1]))
              /\ (\A k \in 1..Len(arg_s) : Blank(arg_s[k])) <=> r = <<>>
              /\ arg_s = TEST_ONLY_WHITESPACE => r = <<>>
    /\ (fn = "condense_whitespace" /\ status = "returned") =>
          /\ Len(ret[1]) = Cardinality(CondenseKept)
          /\ \A i \in CondenseKept :
                ret[1][Cardinality({j \in CondenseKept : j <= i})]
                    = condense_line_whitespace(lines[i])
          /\ \A k \in 1..Len(ret[1]) : ret[1][k] # <<>>

\* A line with runs of blanks inside and around it has been condensed.
C11_Witness ==
    /\ fn = "condense_line_whitespace"
    /\ status = "returned"
    /\ arg_s = <<" ", "a", "\t", " ", "b", " ">>
    /\ ret[1] = <<"a", " ", "b">>

(***************************************************************************)
(* Claims about collect_header_comment.                                    *)
(***************************************************************************)
\* The sentinel lines of the input: #HEADER_START and #HEADER_END up to
\* surrounding whitespace and letter case.
HeaderStartLines ==
    { HEADER_START,
      <<" ", "#", "h", "e", "a", "d", "e", "r", "_", "s", "t", "a", "r", "t">> }
HeaderEndLines ==
    { HEADER_END,
      <<"#", "H", "e", "a", "d", "e", "r", "_", "e", "n", "d", " ">> }

\* The indices of the end sentinels after the first line.
HeaderEnds == {i \in 2..Len(lines) : lines[i] \in HeaderEndLines}

\* C12: when the first line is the start sentinel, collect_header_comment
\* returns the lines strictly between it and the first later end sentinel,
\* and the lines after that end sentinel, both in order, and panics when no
\* end sentinel follows; on an empty input or another first line it returns
\* no header and the lines unchanged.
C12_HeaderSplit ==
    fn = "collect_header_comment" =>
        /\ status = "returned" =>
              IF lines = <<>> \/ lines[1] \notin HeaderStartLines
              THEN ret[1] = << <<>>, lines >>
              ELSE /\ HeaderEnds # {}
                   /\ ret[1] = << SubSeq(lines, 2, Min(HeaderEnds) - 1),
                                  SubSeq(lines, Min(HeaderEnds) + 1, Len(lines)) >>
        /\ status = "panicked" =>
              /\ lines # <<>>
              /\ lines[1] \in HeaderStartLines
              /\ HeaderEnds = {}
              /\ ret = <<>>
        /\ status = "running" => ENABLED NextHeader

\* A header of one line has been split from the one line after it.
C12_Witness ==
    /\ fn = "collect_header_comment"
    /\ status = "returned"
    /\ Len(lines) = 4
    /\ lines[1] \in HeaderStartLines
    /\ ret[1] = << <<lines[2]>>, <<lines[4]>> >>

(***************************************************************************)
(* Claims about expand_line.                                               *)
(***************************************************************************)
\* The 0-based index of the first c of arg_s, Len(arg_s) if there is none.
FirstChar(c) == Min({k \in 0..Len(arg_s) : k = Len(arg_s) \/ arg_s[k + 1] = c})

\* The name of the line: its text before the first `(`, in upper case.
ExpandName ==
    [k \in 1..FirstChar("(") |-> to_uppercase_char(arg_s[k])]

\* The line has a `(` and lacks a comma or a closing parenthesis.
ExpandMalformed ==
    /\ FirstChar("(") < Len(arg_s)
    /\ FirstChar(",") = Len(arg_s) \/ FirstChar(")") = Len(arg_s)

\* C13: a line whose name is not in the registry, and a line with a `(`
\* and no comma or no `)`, is returned as the one line it is, without a
\* failure, whatever its parentheses hold.
C13_UnrecognizedPassesThrough ==
    (fn = "expand_line" /\ status # "running"
        /\ (ExpandName \notin ParenMacros \cup PlainMacros \/ ExpandMalformed))
    => (status = "returned" /\ ret = << <<arg_s>> >>)

\* text is a number with at most one point and at least one digit.
IsFloatText(text) ==
    /\ \A k \in 1..Len(text) : text[k] \in {"0", "1", "2", "3", "4", "5", "6", "7", "8", "9", "."}
    /\ Cardinality({k \in 1..Len(text) : text[k] = "."}) <= 1
    /\ \E k \in 1..Len(text) : text[k] # "."

\* text is a non-empty run of digits.
IsUnsignedText(text) ==
    /\ text # <<>>
    /\ \A k \in 1..Len(text) : text[k] \in {"0", "1", "2", "3", "4", "5", "6", "7", "8", "9"}

\* C14: a line NAME(radius,angle...) whose NAME is a parenthesized
\* directive of the registry and whose radius is not a float or whose angle
\* is not an unsigned integer panics and returns nothing; with a float and
\* an unsigned integer it is expanded.
C14_BadMacroArgumentIsFatal ==
    (fn = "expand_line" /\ status # "running"
        /\ ExpandName \in ParenMacros
        /\ FirstChar(",") < Len(arg_s)
        /\ FirstChar(")") < Len(arg_s))
    => LET i == FirstChar("(")
           j == FirstChar(",")
           k == FirstChar(")")
           good == /\ j < k
                   /\ IsFloatText(SubSeq(arg_s, i + 2, j))
                   /\ IsUnsignedText(SubSeq(arg_s, j + 2, k))
       IN  IF good
           THEN status = "returned" /\ ret # << <<arg_s>> >>
           ELSE status = "panicked" /\ ret = <<>>

\* #circle_labels(a,1), whose radius is no number, has panicked.
C14_Witness ==
    /\ fn = "expand_line"
    /\ status = "panicked"
    /\ ExpandName \in ParenMacros
    /\ Len(arg_s) = 19
    /\ SubSeq(arg_s, 15, 19) = <<"(", "a", ",", "1", ")">>

(***************************************************************************)
(* Claims about probs.                                                     *)
(***************************************************************************)
\* The sum of the numbers of w.
RECURSIVE SumOf(_)
SumOf(w) == IF w = <<>> THEN 0 ELSE Head(w) + SumOf(Tail(w))

\* C17: for a range size m of 1 to 100, probs(100, m) returns m weights whose
\* sum is 100, any two of which differ by at most 1, and of which the first
\* 100 mod m are each one larger than each of the rest.
C17_ProbsSumTo100 ==
    (fn = "probs" /\ status # "running" /\ arg_n = 100 /\ arg_m \in 1..100)
    => /\ status = "returned"
       /\ LET w == ret[1]
          IN  /\ Len(w) = arg_m
              /\ SumOf(w) = 100
              /\ \A a, b \in 1..Len(w) : w[a] - w[b] \in {-1, 0, 1}
              /\ \A a, b \in 1..Len(w) :
                    /\ (a <= 100 % arg_m /\ b > 100 % arg_m) => w[a] = w[b] + 1
                    /\ (a <= 100 % arg_m) = (b <= 100 % arg_m) => w[a] = w[b]

\* probs(100, 3) has returned 34, 33, 33.
C17_Witness ==
    /\ fn = "probs"
    /\ status = "returned"
    /\ arg_n = 100
    /\ arg_m = 3
    /\ ret = << <<34, 33, 33>> >>

(***************************************************************************)
(* Claims about next_label.                                                *)
(***************************************************************************)
Letters ==
    <<"A", "B", "C", "D", "E", "F", "G", "H", "I", "J", "K", "L", "M",
      "N", "O", "P", "Q", "R", "S", "T", "U", "V", "W", "X", "Y", "Z">>

\* The place of the capital letter c in the alphabet, 0 for another
\* character.
LetterIndex(c) ==
    IF \E k \in 1..Len(Letters) : Letters[k] = c
    THEN CHOOSE k \in 1..Len(Letters) : Letters[k] = c
    ELSE 0

\* C18: the call with no label returns _A; each call of a chain is made with
\* the result of the call before it; a label ending in a letter A to Y gives
\* the label with that letter replaced by the next letter, a label ending in
\* Z gives the label with an A appended; and no two of 26 calls in a row
\* return the same label.
C18_NextLabelSuccessor ==
    fn = "next_label" =>
    /\ \A k \in 1..Len(calls) :
          LET arg == calls[k][1]
              result == calls[k][2]
          IN  /\ k > 1 => arg = <<calls[k - 1][2]>>
              /\ arg = <<>> => result = <<"_", "A">>
              /\ arg # <<>> =>
                    LET n == Len(arg[1])
                        at == LetterIndex(arg[1][n])
                    IN  /\ at = 26 => result = arg[1] \o <<"A">>
                        /\ at \in 1..25 =>
                              /\ Len(result) = n
                              /\ SubSeq(result, 1, n - 1) = SubSeq(arg[1], 1, n - 1)
                              /\ result[n] = Letters[at + 1]
    /\ \A a, b \in 1..Len(calls) : (a < b /\ b - a < 26) => calls[a][2] # calls[b][2]

\* Twenty-seven calls from no label: _A, then _B up to _Z, then _ZA.
C18_Witness ==
    /\ fn = "next_label"
    /\ Len(calls) = 27
    /\ calls[1] = << <<>>, <<"_", "A">> >>
    /\ calls[2][2] = <<"_", "B">>
    /\ calls[26][2] = <<"_", "Z">>
    /\ calls[27][2] = <<"_", "Z", "A">>

(***************************************************************************)
(* Claims about extract_rnd.                                               *)
(***************************************************************************)
\* text occurs in line.
HasText(line, text) ==
    \E a \in 1..(Len(line) - Len(text) + 1) : SubSeq(line, a, a + Len(text) - 1) = text

\* line is the flag in some case of its letters.
IsRndFlag(line) == to_uppercase(line) = EXTRACT_RND

\* The script has a flag line.
RndFlagged == \E k \in 1..Len(lines) : IsRndFlag(lines[k])

\* C15: without a flag line the lines are returned as they are, whether or
\* not they hold rnd; with a flag line anywhere no line of the output is the
\* flag.
C15_ExtractRndOptIn ==
    (fn = "extract_rnd" /\ status = "returned")
    => IF RndFlagged
       THEN \A k \in 1..Len(ret[1]) : ~IsRndFlag(ret[1][k])
       ELSE ret[1] = lines

\* A script without a flag and with rnd after the marker has been returned
\* as it is.
C15_Witness ==
    /\ fn = "extract_rnd"
    /\ status = "returned"
    /\ ~RndFlagged
    /\ Len(lines) = 2
    /\ HasText(lines[1], ELEVATION_GENERATION)
    /\ HasText(lines[2], RND)
    /\ ret = <<lines>>

\* The lines of the script that are not the flag.
RndUnflagged == SelectSeq(lines, LAMBDA line : ~IsRndFlag(line))

\* The place in RndUnflagged of the first marker line, past the end if there
\* is none.
RndMarkerAt ==
    LET kept == RndUnflagged
    IN  Min({k \in 1..(Len(kept) + 1) :
                IF k > Len(kept) THEN TRUE
                ELSE HasText(kept[k], ELEVATION_GENERATION)})

\* The places in RndUnflagged of the lines after the marker that hold rnd.
RndRewritten ==
    LET kept == RndUnflagged
        marker == RndMarkerAt
    IN  {k \in 1..Len(kept) : k > marker /\ HasText(kept[k], RND)}

\* The number of values of the range rnd(min,max) of a line of one-digit
\* bounds.
RndRangeSize(line) ==
    LET a == CHOOSE k \in 1..Len(line) : line[k] = "("
    IN  DigitValue(line[a + 3]) - DigitValue(line[a + 1]) + 1

\* C16: with a flag line, the output is one block per rewritten line, in
\* the order of those lines, followed by the lines that are not the flag in
\* their order, of which the lines up to and including the first marker line
\* and the later lines without rnd are unchanged and the later lines with
\* rnd are replaced.
C16_OnlyBodyRewritten ==
    (fn = "extract_rnd" /\ status = "returned" /\ RndFlagged)
    => LET out == ret[1]
           kept == RndUnflagged
           rewritten == RndRewritten
           blocks == Len(out) - Len(kept)
       IN  /\ blocks = Cardinality(rewritten)
           /\ \A k \in 1..Len(kept) :
                 IF k \in rewritten
                 THEN LET block == out[Cardinality({r \in rewritten : r <= k})]
                      IN  /\ out[blocks + k] # kept[k]
                          /\ starts_with(out[blocks + k], IF_DELIM \o <<" ">>)
                          /\ starts_with(block, START_RANDOM)
                          /\ Len(split(block)) = RndRangeSize(kept[k]) + 2
                 ELSE out[blocks + k] = kept[k]

\* flag, n rnd(1,3), marker, m rnd(0,1): the block of the last line, the two
\* lines before it unchanged, and the chain of the last line.
C16_Witness ==
    /\ fn = "extract_rnd"
    /\ status = "returned"
    /\ Len(lines) = 4
    /\ IsRndFlag(lines[1])
    /\ HasText(lines[2], RND)
    /\ HasText(lines[3], ELEVATION_GENERATION)
    /\ 4 \in {k + 1 : k \in RndRewritten}
    /\ Len(ret[1]) = 4
    /\ ret[1][2] = lines[2]
    /\ ret[1][3] = lines[3]
    /\ Len(split(ret[1][1])) = 4
    /\ Len(split(ret[1][4])) = 5

\* The text of each line of text after the first occurrence in it of word
\* followed by a space, for the lines that hold it.
NamesAfter(text, word) ==
    LET pieces == split(text)
    IN  {SliceFrom(pieces[k], find(pieces[k], word \o <<" ">>) + Len(word) + 1) :
            k \in {a \in 1..Len(pieces) : HasText(pieces[a], word \o <<" ">>)}}

\* The names a preamble block defines.
DefinedNames(block) == NamesAfter(block, HASH_DEFINE)

\* The names a conditional chain tests.
ReferencedNames(chain) == NamesAfter(chain, IF_DELIM)

\* C19: with a flag line, every block of the preamble defines one name for
\* each of its percent_chance lines, no name is defined by two blocks, and
\* the chain that replaces a line tests exactly the names of the block of
\* that line.
C19_FreshLabels ==
    (fn = "extract_rnd" /\ status = "returned" /\ RndFlagged)
    => LET out == ret[1]
           rewritten == RndRewritten
           blocks == Len(out) - Len(RndUnflagged)
           defined == [a \in 1..blocks |-> DefinedNames(out[a])]
       IN  /\ \A a \in 1..blocks :
                 Cardinality(defined[a]) = Len(split(out[a])) - 2
           /\ \A a, b \in 1..blocks :
                 a # b => defined[a] \cap defined[b] = {}
           /\ \A k \in rewritten :
                 ReferencedNames(out[blocks + k])
                     = defined[Cardinality({r \in rewritten : r <= k})]

\* The script of twenty-seven rewritten lines has returned; the last block
\* defines _ZA_0.
C19_Witness ==
    /\ fn = "extract_rnd"
    /\ status = "returned"
    /\ Cardinality(RndRewritten) = 27
    /\ Len(ret[1]) = 55
    /\ <<"_", "Z", "A", "_", "0">> \in DefinedNames(ret[1][27])
    /\ <<"_", "A", "_", "0">> \in DefinedNames(ret[1][1])

(***************************************************************************)
(* Claims about substitute_actor_area_names.                               *)
(***************************************************************************)
\* The words of a line: its pieces between single spaces.
RECURSIVE Words(_)
Words(line) ==
    IF \A k \in 1..Len(line) : line[k] # " " THEN <<line>>
    ELSE LET at == CHOOSE k \in 1..Len(line) :
                       line[k] = " " /\ \A a \in 1..(k - 1) : line[a] # " "
         IN  <<SubSeq(line, 1, at - 1)>> \o Words(SubSeq(line, at + 1, Len(line)))

\* The name a line declares as a one-element sequence, <<>> for a line that
\* declares none: the word after actor_area, the word before the last of
\* create_actor_area.
DeclaredName(line) ==
    LET words == Words(line)
    IN  IF Len(words) = 2 /\ words[1] = ACTOR_AREA THEN <<words[2]>>
        ELSE IF Len(words) > 2 /\ words[1] = CREATE_ACTOR_AREA
             THEN <<words[Len(words) - 1]>>
        ELSE <<>>

\* The names the first n lines declare, each once, in the order of their
\* first declarations.
RECURSIVE FirstDeclarations(_)
FirstDeclarations(n) ==
    IF n = 0 THEN <<>>
    ELSE LET before == FirstDeclarations(n - 1)
             name == DeclaredName(lines[n])
         IN  IF name = <<>> THEN before
             ELSE IF \E k \in 1..Len(before) : before[k] = name[1] THEN before
             ELSE before \o name

\* C20: after any number of lines of pass 1, the k-th name in the order of
\* first declarations has the id 20000 + k - 1 and no other name has an id,
\* so ids are distinct, at least 20000, and a second declaration of a name
\* changes nothing; the next id is 20000 plus the number of names.
C20_AreaIdsInDeclarationOrder ==
    fn = "substitute_actor_area_names" =>
    LET names == FirstDeclarations(pos)
    IN  /\ actor_areas = {<<names[k], 20000 + k - 1>> : k \in 1..Len(names)}
        /\ next_id = 20000 + Len(names)
        /\ \A pair \in actor_areas : pair[2] >= 20000

\* Declarations of foo, bar and foo again: foo has 20000, bar has 20001.
C20_Witness ==
    /\ fn = "substitute_actor_area_names"
    /\ Len(lines) = 3
    /\ pos = 3
    /\ DeclaredName(lines[1]) = << <<"f", "o", "o">> >>
    /\ DeclaredName(lines[2]) = << <<"b", "a", "r">> >>
    /\ DeclaredName(lines[3]) = << <<"f", "o", "o">> >>
    /\ actor_areas = { << <<"f", "o", "o">>, 20000 >>, << <<"b", "a", "r">>, 20001 >> }
    /\ next_id = 20002

\* The words joined by single spaces.
RECURSIVE JoinWords(_)
JoinWords(words) ==
    IF Len(words) = 1 THEN words[1]
    ELSE words[1] \o <<" ">> \o JoinWords(Tail(words))

\* The place of the name among the words of a line that refers to an area,
\* 0 for a line of another command or without a name: the second word after
\* actor_area, avoid_actor_area and actor_area_to_place_in, the word before
\* the last of create_actor_area.
AreaNameAt(words) ==
    IF Len(words) = 2
          /\ words[1] \in {ACTOR_AREA, AVOID_ACTOR_AREA, ACTOR_AREA_TO_PLACE_IN}
    THEN 2
    ELSE IF Len(words) > 2 /\ words[1] = CREATE_ACTOR_AREA THEN Len(words) - 1
    ELSE 0

\* The line with its name replaced by the decimal id of the name, for a line
\* that refers to a name among names, the names in the order of their ids;
\* the line itself otherwise.
AreaResolved(line, names) ==
    LET words == Words(line)
        at == AreaNameAt(words)
    IN  IF at = 0 THEN line
        ELSE IF \A n \in 1..Len(names) : names[n] # words[at] THEN line
        ELSE LET n == CHOOSE n \in 1..Len(names) : names[n] = words[at]
             IN  JoinWords([words EXCEPT ![at] = to_string(20000 + n - 1)])

\* C21: pass 2 returns as many lines as it was given, in their order; a line
\* of one of the four area commands whose name was declared anywhere in the
\* script has the name replaced by its id and its other words kept; such a
\* line with a name never declared, and every other line, is unchanged.
C21_AreaNamesSubstituted ==
    (fn = "substitute_actor_area_names" /\ status = "returned")
    => LET names == FirstDeclarations(Len(lines))
       IN  /\ Len(ret[1]) = Len(lines)
           /\ \A k \in 1..Len(lines) : ret[1][k] = AreaResolved(lines[k], names)

\* avoid_actor_area foo before create_actor_area 1 2 foo 3, and
\* actor_area_to_place_in bar with bar not declared.
C21_Witness ==
    /\ fn = "substitute_actor_area_names"
    /\ status = "returned"
    /\ Len(lines) = 3
    /\ lines[1] = AVOID_ACTOR_AREA \o <<" ", "f", "o", "o">>
    /\ lines[3] = ACTOR_AREA_TO_PLACE_IN \o <<" ", "b", "a", "r">>
    /\ ret[1] = << AVOID_ACTOR_AREA \o <<" ", "2", "0", "0", "0", "0">>,
                   CREATE_ACTOR_AREA
                       \o <<" ", "1", " ", "2", " ", "2", "0", "0", "0", "0", " ", "3">>,
                   lines[3] >>

(***************************************************************************)
(* Claims about nested blocks of repeat_lines.                             *)
(***************************************************************************)
\* The line is no repeat directive.
RepeatPlain(line) == line \notin RepeatOpenLines \cup RepeatCloseLines

\* The input is p plain lines, two opens, k >= 1 plain lines, two closes, and
\* plain lines.
RepeatTwoDeep(p, k) ==
    /\ p + k + 4 <= Len(lines)
    /\ lines[p + 1] \in RepeatOpenLines
    /\ lines[p + 2] \in RepeatOpenLines
    /\ lines[p + k + 3] \in RepeatCloseLines
    /\ lines[p + k + 4] \in RepeatCloseLines
    /\ \A i \in 1..Len(lines) :
          i \notin {p + 1, p + 2, p + k + 3, p + k + 4} => RepeatPlain(lines[i])

\* C25: a close that pops a frame of count n >= 1 and of a body that is not
\* empty while a frame is left appends the body n times to the body of the
\* frame below and leaves the output as it is; the output changes only in
\* steps that leave no frame open; and a script of plain lines around
\* #REPEAT(a), #REPEAT(b), k >= 1 plain lines and two closes, with a, b >= 1,
\* returns the lines before, the k lines a * b times (a * b * k lines), and
\* the lines after.
C25_NestedRepeat ==
    /\ [][ /\ ( /\ RepeatHasLine
                /\ lines[pos + 1] \in RepeatCloseLines
                /\ Len(repeats) >= 2
                /\ repeats[Len(repeats)].count >= 1
                /\ repeats[Len(repeats)].lines # <<>> )
              => /\ output' = output
                 /\ Len(repeats') = Len(repeats) - 1
                 /\ repeats'[Len(repeats')].lines
                       = repeats[Len(repeats) - 1].lines
                           \o ConcatTimes(repeats[Len(repeats)].lines,
                                          repeats[Len(repeats)].count)
           /\ repeats' # <<>> => output' = output
         ]_vars
    /\ [](\A p \in 0..Len(lines), k \in 1..Len(lines) :
            ( /\ fn = "repeat_lines"
              /\ status = "returned"
              /\ RepeatTwoDeep(p, k)
              /\ RepeatCountOf(lines[p + 1]) >= 1
              /\ RepeatCountOf(lines[p + 2]) >= 1 )
            => LET times == RepeatCountOf(lines[p + 1]) * RepeatCountOf(lines[p + 2])
                   inner == ConcatTimes(SubSeq(lines, p + 3, p + k + 2), times)
               IN  /\ Len(inner) = times * k
                   /\ ret[1] = SubSeq(lines, 1, p) \o inner
                                  \o SubSeq(lines, p + k + 5, Len(lines)))

\* foo, #REPEAT(2), #repeat(3), foo, bar, two closes, bar has returned
\* fourteen lines.
C25_Witness ==
    /\ fn = "repeat_lines"
    /\ status = "returned"
    /\ RepeatTwoDeep(1, 2)
    /\ Len(lines) = 8
    /\ Len(ret[1]) = 14
    /\ ret[1][1] = lines[1]
    /\ ret[1][14] = lines[8]

\* C29: a balanced input without an empty line is returned without an empty
\* line, whatever the counts and the bodies of its blocks.
C29_NoBlankLineFromRepeat ==
    ( /\ fn = "repeat_lines"
      /\ status = "returned"
      /\ \A k \in 1..Len(lines) : lines[k] # <<>> )
    => \A k \in 1..Len(ret[1]) : ret[1][k] # <<>>

(***************************************************************************)
(* Claims about the open delimiter in strip_line_comments.                 *)
(***************************************************************************)
\* C26: for a line whose first delimiter is an open delimiter at index i,
\* the result is the text before i if the depth was 0 and nothing if it was
\* above 0, followed by what the rest of the line after the delimiter gives
\* at the depth plus one, and the depth that rest ends at; `a /* b` gives
\* (`a `, 1) at depth 0 and (empty, d + 1) at a depth d above 0; and for a
\* line whose only delimiter is one close delimiter, read at a depth d above
\* 0, the text after the delimiter is returned if d is 1 and nothing if d is
\* above 1, with the depth d - 1.
C26_OpenHandling ==
    (fn = "strip_line_comments" /\ status = "returned") =>
        LET i == FirstDelimiter(arg_s)
            tail == SubSeq(arg_s, i + 3, Len(arg_s))
        IN  /\ OpenAt(arg_s, i) =>
                  LET rest == DepthScan(arg_s, i + 2, arg_depth + 1)
                  IN  /\ ret[1][1] = (IF arg_depth = 0 THEN SubSeq(arg_s, 1, i) ELSE <<>>)
                                         \o rest[1]
                      /\ ret[1][2] = rest[2]
            /\ arg_s = <<"a", " ", "/", "*", " ", "b">> =>
                  ret[1] = <<IF arg_depth = 0 THEN <<"a", " ">> ELSE <<>>, arg_depth + 1>>
            /\ (CloseAt(arg_s, i) /\ NoDelimiter(tail) /\ arg_depth > 0) =>
                  ret[1] = <<IF arg_depth = 1 THEN tail ELSE <<>>, arg_depth - 1>>

\* `a /* b` read at depth 1 has returned the empty string and depth 2.
C26_Witness ==
    /\ fn = "strip_line_comments"
    /\ status = "returned"
    /\ arg_s = <<"a", " ", "/", "*", " ", "b">>
    /\ arg_depth = 1
    /\ ret[1] = << <<>>, 2 >>

\* The flag directives among lines o+1..k of the input.
ObjectFlagsIn(o, k) == {i \in (o + 1)..k : lines[i] \in ObjectFlagLines}

\* C30: the every-player flag and the player count never leak between
\* blocks.  While no block is open the flag is clear, so it is clear when a
\* block opens; while a block is open the flag is set exactly when a flag
\* directive occurred inside that block, and the player count then is the
\* count of the block's last flag directive (2 or 8); a closing brace emits
\* as many copies as the block's own directives say (one without any).
C30_NoLeakBetweenBlocks ==
    /\ [](fn = "assign_objects" =>
            IF ObjectInBlock(pos)
            THEN LET flags == ObjectFlagsIn(ObjectBlockStart(pos), pos)
                 IN  /\ every_player <=> flags # {}
                     /\ every_player =>
                          num_players = (IF lines[Max(flags)] = PLACE8 THEN 8 ELSE 2)
            ELSE ~every_player)
    /\ [][ ( /\ ObjectHasLine
             /\ ObjectInBlock(pos)
             /\ lines[pos + 1] = CLOSE_BRACE )
           => LET flags == ObjectFlagsIn(ObjectBlockStart(pos), pos)
                  copies == IF flags = {} THEN 1
                            ELSE IF lines[Max(flags)] = PLACE8 THEN 8 ELSE 2
                  added == SubSeq(output', Len(output) + 1, Len(output'))
              IN  /\ Len(SelectSeq(added, LAMBDA l : l = CLOSE_BRACE)) = copies
                  /\ ~every_player'
         ]_vars

\* A block without directives that follows a #PLACE8 block is emitted once:
\* eight copies of the first block, then the second block as it is.
C30_Witness ==
    /\ fn = "assign_objects"
    /\ status = "returned"
    /\ lines = <<CREATE_OBJECT \o <<" ", "A">>, PLACE8, CLOSE_BRACE,
                 CREATE_OBJECT \o <<" ", "A">>, CLOSE_BRACE>>
    /\ num_players = 8
    /\ ~every_player
    /\ Len(ret[1]) = 26

(***************************************************************************)
(* Claims about prob_definitions and prob_conditional.                     *)
(***************************************************************************)
\* The lower bound of the range rnd(min,max) of a line of one-digit bounds.
RndRangeMin(line) ==
    LET a == CHOOSE k \in 1..Len(line) : line[k] = "("
    IN  DigitValue(line[a + 1])

\* C27: for every line `instruction rnd(min,max)` with min < max that was
\* rewritten, the block and the chain made for it agree: the block has
\* max - min + 1 percent_chance lines between start_random and end_random,
\* the k-th defining <label>_<k>; the chain has as many branches, the k-th
\* testing <label>_<k> and holding `instruction <min + k>`, the values
\* ascending from min to max, the first branch opened by if and the others
\* by elseif, and it ends with endif.
C27_BlockAndChainAgree ==
    (fn = "extract_rnd" /\ status = "returned" /\ RndFlagged)
    => LET out == ret[1]
           kept == RndUnflagged
           rewritten == RndRewritten
           blocks == Len(out) - Len(kept)
       IN  \A r \in rewritten :
              LET line == kept[r]
                  n == RndRangeSize(line)
                  min == RndRangeMin(line)
                  instruction == Words(line)[1]
                  block == split(out[Cardinality({a \in rewritten : a <= r})])
                  chain == split(out[blocks + r])
                  first == Words(block[2])[4]
                  label == SubSeq(first, 1, Len(first) - 2)
                  name == [k \in 0..(n - 1) |-> label \o <<"_", DecimalDigits[k + 1]>>]
              IN  /\ n > 1
                  /\ Len(block) = n + 2
                  /\ block[1] = START_RANDOM
                  /\ block[n + 2] = <<"e", "n", "d", "_", "r", "a", "n", "d", "o", "m">>
                  /\ Len(chain) = 2 * n + 1
                  /\ chain[2 * n + 1] = <<"e", "n", "d", "i", "f">>
                  /\ \A k \in 0..(n - 1) :
                        LET def == Words(block[k + 2])
                        IN  /\ Len(def) = 4
                            /\ def[1] = <<"p", "e", "r", "c", "e", "n", "t", "_",
                                          "c", "h", "a", "n", "c", "e">>
                            /\ def[3] = HASH_DEFINE
                            /\ def[4] = name[k]
                            /\ chain[2 * k + 1] =
                                  (IF k = 0 THEN <<"i", "f">>
                                   ELSE <<"e", "l", "s", "e", "i", "f">>)
                                      \o <<" ">> \o name[k]
                            /\ chain[2 * k + 2] =
                                  instruction \o <<" ", DecimalDigits[min + k + 1]>>

\* flag, marker, n rnd(1,3) has returned: the block defines _A_0, _A_1 and
\* _A_2 and the chain gives n the values 1, 2 and 3 in that order.
C27_Witness ==
    /\ fn = "extract_rnd"
    /\ status = "returned"
    /\ Len(lines) = 3
    /\ IsRndFlag(lines[1])
    /\ lines[3] = <<"n", " ", "r", "n", "d", "(", "1", ",", "3", ")">>
    /\ Len(ret[1]) = 3
    /\ Len(split(ret[1][1])) = 5
    /\ split(ret[1][3]) =
          << <<"i", "f", " ", "_", "A", "_", "0">>, <<"n", " ", "1">>,
             <<"e", "l", "s", "e", "i", "f", " ", "_", "A", "_", "1">>, <<"n", " ", "2">>,
             <<"e", "l", "s", "e", "i", "f", " ", "_", "A", "_", "2">>, <<"n", " ", "3">>,
             <<"e", "n", "d", "i", "f">> >>

(***************************************************************************)
(* Claims about opponent_probability.                                      *)
(***************************************************************************)
\* |a - b|
SlotDistance(a, b) == IF a >= b THEN a - b ELSE b - a

ProcessHasBreak(line) ==
    LET upper == <<"#", "B", "R", "E", "A", "K">>
        lower == <<"#", "b", "r", "e", "a", "k">>
    IN  \E i \in 0..(Len(line) - 6) :
           \A j \in 1..6 : line[i + j] \in {upper[j], lower[j]}

\* The header lines followed by the lines of the last pass, up to the line
\* before the first that holds #BREAK.
ProcessWritten ==
    LET total == header \o lines
        stop == Min({k \in 1..(Len(total) + 1) :
                        IF k > Len(total) THEN TRUE ELSE ProcessHasBreak(total[k])})
    IN  SubSeq(total, 1, stop - 1)

\* C22: when process_script returns, the destination holds the header lines
\* followed by the body lines up to the line before the first one that
\* contains #BREAK in any case, with one newline between consecutive
\* written lines and no separator before the first or after the last: the
\* text begins with the first written line and ends with the last, and
\* nothing is written when no line is.
C22_WriteUntilBreak ==
    (fn = "process_script" /\ status = "returned")
    => LET written == ProcessWritten
           text == dest[1]
           n == Len(written)
       IN  /\ dest # <<>>
           /\ text = join(written)
           /\ n = 0 => text = <<>>
           /\ n > 0 =>
                 /\ Len(text) >= Len(written[1])
                 /\ SubSeq(text, 1, Len(written[1])) = written[1]
                 /\ SubSeq(text, Len(text) - Len(written[n]) + 1, Len(text)) = written[n]
           /\ n > 1 =>
                 /\ text[Len(written[1]) + 1] = NL
                 /\ text[Len(text) - Len(written[n])] = NL

\* The script that every pass changes has been written: the two header
\* lines, the second of them blank, come first, and the text ends with bar,
\* the line before #break; tail is not written.
C22_Witness ==
    /\ fn = "process_script"
    /\ status = "returned"
    /\ Len(header) = 2
    /\ header[2] = <<>>
    /\ Len(lines) > 3
    /\ lines[Len(lines)] = <<"t", "a", "i", "l">>
    /\ lines[Len(lines) - 1] = <<"#", "b", "r", "e", "a", "k">>
    /\ Len(dest[1]) > 20
    /\ SubSeq(dest[1], 1, 13) = header[1] \o <<NL, NL>>
    /\ SubSeq(dest[1], Len(dest[1]) - 3, Len(dest[1])) = <<NL, "b", "a", "r">>

\* C23: the lines between the header sentinels pass through no rewrite
\* stage and are reattached verbatim: when process_script returns, the
\* header is the lines of the script between the sentinels, and all of them
\* are the first lines of the destination, in their order, whatever text
\* they contain.
C23_HeaderOpaque ==
    (fn = "process_script" /\ status = "returned")
    => LET text == split(dest[1])
       IN  /\ Len(text) >= Len(header)
           /\ SubSeq(text, 1, Len(header)) = header

\* C23 as amended: the lines between the header sentinels pass through no
\* rewrite stage: from the return of collect_header_comment on no step
\* changes the header, and the line sequence handed to write_until_break is
\* the header, all of it and in its order, followed by the lines of the
\* last pass.  The destination begins with the header lines up to the line
\* before the first of them that contains #BREAK, verbatim, and holds
\* nothing else when a header line contains #BREAK.
C23_HeaderOpaqueUntilBreak ==
    [][ /\ (fn \notin {"main", "collect_header_comment"}) => header' = header
        /\ (fn = "substitute_actor_area_names" /\ fn' = "process_script")
              => LET stop == Min({k \in 1..(Len(header) + 1) :
                                     IF k > Len(header) THEN TRUE
                                     ELSE ProcessHasBreak(header[k])})
                     kept == SubSeq(header, 1, stop - 1)
                     text == split(dest'[1])
                 IN  /\ output' = header \o ret[1]
                     /\ Len(text) >= Len(kept)
                     /\ SubSeq(text, 1, Len(kept)) = kept
                     /\ stop <= Len(header) => dest'[1] = join(kept)
      ]_vars

\* A header of the lines foo and x #Break has been written: the destination
\* holds foo alone.
C23_Witness ==
    /\ fn = "process_script"
    /\ status = "returned"
    /\ header = << <<"f", "o", "o">>, <<"x", " ", "#", "B", "r", "e", "a", "k">> >>
    /\ dest = << <<"f", "o", "o">> >>

\* C24: there is no partial output: when a stage fails, the destination is
\* as it was before the script was processed, neither created nor truncated
\* nor written; when every stage succeeds, the complete output is in it.
C24_NoPartialOutput ==
    /\ status = "panicked" => dest \in { <<>>, << <<"o", "l", "d">> >> }
    /\ (fn = "process_script" /\ status = "returned")
          => dest = <<join(ProcessWritten)>>

====
